---------------------------- MODULE Spec2Model ----------------------------
(***************************************************************************)
(* State-machine model of the nacos registry client of dubbo-go            *)
(* (src/unnamed/part_000, package nacos): registration ledger, the shared  *)
(* listener cache, the availability cache, the event-delivery goroutines   *)
(* and the Destroy sequence.                                               *)
(*                                                                         *)
(* Every goroutine is a process with a program counter; one action is one  *)
(* access to shared memory (or one backend call) of the Go code, so that   *)
(* every interleaving the Go scheduler can produce is a behaviour.         *)
(* A Go panic (close of a closed or nil channel, nil dereference) is       *)
(* recorded in `fault`; a faulted program takes no further step.           *)
(***************************************************************************)
EXTENDS Naturals, Integers, Sequences, FiniteSets, TLC

(***************************************************************************)
(* Bounds of the model                                                     *)
(***************************************************************************)
\* number of public calls issued when one goroutine issues them in sequence
MaxCalls == 3
\* number of public calls issued when two goroutines issue them concurrently
MaxConcCalls == 2
\* number of listener objects installed over a run
MaxHandles == 2
\* number of change events the backend produces over a run
MaxEvents == 1
\* number of change events the backend produces over a run that observes the
\* order of delivery
MaxPushes == 2
\* number of instances a listing of the backend holds at most
MaxInstances == 2

(***************************************************************************)
(* Program constants                                                       *)
(***************************************************************************)
\* checkInterval = 5 * time.Second, in seconds
checkInterval == 5

\* LookupInterval = 20 * time.Second, in seconds
LookupInterval == 20

\* how long the clock advances in one step: to just inside the interval, or past it
TickSteps == {checkInterval - 1, checkInterval}

defaultGroup == "DEFAULT_GROUP"
NacosServiceNameSeparator == ":"

(***************************************************************************)
(* Processes, registries, inputs                                           *)
(***************************************************************************)
Regs == {"r1"}
Callers == {<<"caller", 1>>, <<"caller", 2>>}
Handles == 1..MaxHandles
Pumps == {<<"pump", h>> : h \in Handles}
\* the goroutine running scheduledLookUp: a run has one wildcard Subscribe
Lookups == {<<"lookup", 1>>}
Procs == Callers \cup Pumps \cup Lookups

\* the URLs the callers pass in
\* A string is a sequence of pieces of text, so that joining strings is \o and
\* the separator can occur inside a value.  A parameter that is absent is the
\* empty string: url.GetParam(key, d) returns d for both.
\* role is the registry.role parameter, category the category parameter (a list,
\* comma-separated in the URL), weight the weight parameter.
Url(role, iface, version, group) ==
    [role |-> role, iface |-> iface, version |-> version, group |-> group,
     category |-> << >>, weight |-> << >>]
NoUrl == Url("", << >>, << >>, << >>)
SubscribeUrls == {Url("0", << "com.foo.Bar" >>, << "1.0" >>, << "g1" >>)}
\* the same interest with the role of a consumer, a configurator, a provider,
\* with no role, with a role that is not a number, and with numbers written
\* with a sign, with leading zeros, and outside the role types
RoleUrls == {Url(role, << "com.foo.Bar" >>, << "1.0" >>, << "g1" >>) :
                role \in {"0", "1", "3", "", "x", "4", "10", "03", "+3", "-1", "+0", "00"}}
RegisterUrls ==
    {Url("3", << "com.foo.Bar" >>, << "1.0" >>, << "g1" >>),
     Url("3", << "com.foo.Baz" >>, << >>, << >>)}
\* endpoints whose role is not an index of common.DubboNodes
OutOfRangeUrls ==
    {Url(role, << "com.foo.Bar" >>, << "1.0" >>, << "g1" >>) : role \in {"4", "-1"}}

VARIABLES
    ctorOk,         \* [Regs -> BOOLEAN]: newNacosRegistry built the client (URL, done set)
    namingClient,   \* [Regs -> {"nil", "client"}]: nr.namingClient
    done,           \* [Regs -> {"nil", "open", "closed"}]: nr.done
    lastAvailable,  \* nr.availability.lastAvailable
    sinceLastCheck, \* time.Since(nr.availability.lastCheckTime) in seconds, which the
                    \* model stops counting at checkInterval (the code compares it
                    \* with checkInterval and with nothing else)
    wg,             \* nr.wg counter
    registryUrls,   \* nr.registryUrls
    listenerCache,  \* the package-level sync.Map: key -> handle id
    handles,        \* the listeners created so far: Seq of records
    pc,             \* [Procs -> label]
    frame,          \* [Procs -> locals of the running call]
    result,         \* [Callers -> what the last returned call returned]
    fault,          \* the panic that ended the program, or NoFault
    calls,          \* number of public calls issued
    budget,         \* number of public calls the run may issue
    events,         \* number of change events produced by the backend
    \* observation of the backend and of Destroy (written, never read, by the program)
    closeAttempts,  \* [Regs -> Nat]: executions of close(nr.done)
    closeClientCalls, \* [Regs -> Nat]: CloseClient invocations
    destroyReturned,  \* [Regs -> Nat]: Destroy calls that returned
    unregLog,       \* [Regs -> Seq]: UnRegister invocations, << url, by, outcome >>
    appended,       \* [Regs -> Seq]: URLs appended to the ledger
    \* a DubboInvoker and the exchange client it shares with other invokers
    invoker,        \* [client, quitOnce, destroyed]: di.client, di.quitOnce, BaseInvoker
    exchange        \* [activeNumber, inMap] of the client and the observation of
                    \* its calls: [decrements, closes, requests]

vars == << ctorOk, namingClient, done, lastAvailable, sinceLastCheck, wg, registryUrls,
           listenerCache, handles, pc, frame, result, fault, calls, budget,
           events, closeAttempts, closeClientCalls, destroyReturned, unregLog, appended,
           invoker, exchange >>

invokerVars == << invoker, exchange >>
regVars == << ctorOk, namingClient, done, lastAvailable, sinceLastCheck, wg, registryUrls,
             budget, invokerVars >>
obsVars == << closeAttempts, closeClientCalls, destroyReturned, unregLog, appended >>

NoFault == [kind |-> "none", reg |-> "none", op |-> "none"]
Panic(kind, p) == [kind |-> kind, reg |-> frame[p].reg, op |-> frame[p].op]

\* n numbers the public calls in the order they were issued
NoFrame ==
    [op |-> "none", n |-> 0, reg |-> "none", url |-> NoUrl, name |-> << >>, ret |-> "none",
     ctx |-> "none", h |-> 0, idx |-> 0, snap |-> << >>, bk |-> "none",
     doms |-> << >>, slept |-> 0, client |-> "nil", activeNumber |-> 0,
     todo |-> {}, seen |-> {}, key |-> << >>, param |-> << >>]
NoResult ==
    [op |-> "none", n |-> 0, reg |-> "none", url |-> NoUrl, val |-> "none", bk |-> "none",
     listed |-> << >>, notified |-> << >>, param |-> << >>, name |-> << >>]


(***************************************************************************)
(* Pure helpers                                                            *)
(***************************************************************************)
\* the role types of package common
CONSUMER == 0
PROVIDER == 3
\* constant.NacosDefaultRoleType
NacosDefaultRoleType == PROVIDER

\* the characters of a text, one by one
Chars(text) == [i \in 1..Len(text) |-> SubSeq(text, i, i)]

DigitChars == << "0", "1", "2", "3", "4", "5", "6", "7", "8", "9" >>
IsDigit(c) == \E d \in 1..10 : DigitChars[d] = c
DigitValue(c) == (CHOOSE d \in 1..10 : DigitChars[d] = c) - 1

\* the number written by decimal digits. Above 2^31 - 1, the largest integer
\* of the model, it is kept as 2^31 - 1 (Go keeps it up to 2^63 - 1): the code
\* compares a role with 0 and uses it as an index into four names only
RECURSIVE ReadDigits(_, _)
ReadDigits(digits, acc) ==
    IF digits = << >> THEN acc
    ELSE ReadDigits(Tail(digits),
                    IF acc > 214748363 THEN 2147483647
                    ELSE 10 * acc + DigitValue(Head(digits)))

\* role, _ := strconv.Atoi(text): an optional sign and decimal digits give
\* the number; any other text is an error, which the code drops, with 0
Atoi(text) ==
    LET chars == Chars(text)
        signed == chars # << >> /\ Head(chars) \in {"+", "-"}
        digits == IF signed THEN Tail(chars) ELSE chars
    IN
    IF digits # << >> /\ \A i \in 1..Len(digits) : IsDigit(digits[i])
    THEN IF signed /\ Head(chars) = "-"
         THEN 0 - ReadDigits(digits, 0)
         ELSE ReadDigits(digits, 0)
    ELSE 0

\* strconv.Itoa for the role types
Itoa(n) == CASE n = 0 -> "0" [] n = 1 -> "1" [] n = 2 -> "2" [] OTHER -> "3"

\* url.GetParam(key, d): d when the parameter is absent or empty
GetParam(value, d) == IF value = "" THEN d ELSE value

\* common.DubboNodes[role], for a role that is an index of the slice
DubboNodes(role) ==
    CASE role = 0 -> "consumers"
      [] role = 1 -> "configurators"
      [] role = 2 -> "routers"
      [] role = 3 -> "providers"

\* the role getCategory reads: registry.role, NacosDefaultRoleType (provider)
\* when the parameter is absent
RoleOf(url) == Atoi(GetParam(url.role, Itoa(NacosDefaultRoleType)))

\* line 76: common.DubboNodes[role] panics for an index outside the slice
IndexOutOfRange(url) == RoleOf(url) \notin 0..3

\* getCategory, lines 74-78, for a role inside the slice
getCategory(url) == DubboNodes(RoleOf(url))

\* white space that has no escape in a string: the character itself stands
\* between the quotes.  U+000B, the vertical tab
VerticalTab == ""
\* U+0085, next line
NextLine == ""
\* U+00A0, the no-break space
NoBreakSpace == " "
\* U+1680, the Ogham space mark
OghamSpaceMark == " "

\* the white space of strings.TrimSpace, unicode.IsSpace: blank, tab, line
\* feed, carriage return, form feed, vertical tab, U+0085, U+00A0 and U+1680.
\* The rest of it, U+2000 to U+200A, U+2028, U+2029, U+202F, U+205F and U+3000,
\* cannot stand in a string of this module, so no text of the model holds it
WhiteSpace ==
    {" ", "\t", "\n", "\r", "\f", VerticalTab, NextLine, NoBreakSpace, OghamSpaceMark}

\* strings.TrimSpace(value) == "": nothing but white space, in every piece
IsBlank(value) ==
    \A i \in 1..Len(value) :
        \A j \in 1..Len(value[i]) : SubSeq(value[i], j, j) \in WhiteSpace

\* appendParam: the separator is always written, the value only when not blank
appendParam(target, value) ==
    IF IsBlank(value) THEN target \o << NacosServiceNameSeparator >>
    ELSE target \o << NacosServiceNameSeparator >> \o value

\* getServiceName: category, then interface, version and group, each after a separator
getServiceName(url) ==
    appendParam(appendParam(appendParam(<< getCategory(url) >>, url.iface), url.version), url.group)

\* getSubscribeName: the identity of the providers of the url's service
getSubscribeName(url) ==
    appendParam(appendParam(appendParam(<< DubboNodes(PROVIDER) >>, url.iface), url.version), url.group)

\* url.GetParam(key, d) for a parameter kept as a sequence of pieces
GetParamText(value, d) == IF value = << >> THEN d ELSE value

\* strings.Contains(text, sep) for a separator of one piece
Contains(text, sep) == \E i \in 1..Len(text) : text[i] = sep

\* where sep first occurs in text; Len(text) + 1 when it does not
RECURSIVE IndexFrom(_, _, _)
IndexFrom(text, sep, i) ==
    IF i > Len(text) \/ text[i] = sep THEN i ELSE IndexFrom(text, sep, i + 1)

\* strings.Split(text, sep): the parts between the separators, at least one part
RECURSIVE Split(_, _)
Split(text, sep) ==
    LET i == IndexFrom(text, sep, 1) IN
    IF i > Len(text) THEN << text >>
    ELSE << SubSeq(text, 1, i - 1) >> \o Split(SubSeq(text, i + 1, Len(text)), sep)

\* constant.AnyValue, constant.DefaultCategory, constant.CommaSeparator
AnyValue == << "*" >>
DefaultCategory == << "providers" >>
CommaSeparator == ","

\* the names appended for one listed name (lines 287-294): once for every
\* requested category equal to the text before its first separator
MatchesOf(dom, categories) ==
    IF Contains(dom, NacosServiceNameSeparator)
    THEN LET realCategory == Split(dom, NacosServiceNameSeparator)[1]
         IN [k \in 1..Len(SelectSeq(categories, LAMBDA item : item = realCategory)) |-> dom]
    ELSE << >>

\* lines 285-297 of getAllSubscribeServiceNames: the listed names that pass the
\* category filter, in listing order
RECURSIVE FilterByCategory(_, _)
FilterByCategory(doms, categories) ==
    IF doms = << >> THEN << >>
    ELSE MatchesOf(Head(doms), categories) \o FilterByCategory(Tail(doms), categories)

\* a filter that lets every listed name through
NoCategoryFilter(doms, categories) == doms

getAllSubscribeServiceNames(doms, url) ==
    FilterByCategory(doms, Split(GetParamText(url.category, DefaultCategory), CommaSeparator))

\* nr.GetParam(constant.RegistryGroupKey, defaultGroup)
RegistryGroup(r) == defaultGroup

(***************************************************************************)
(* The weight of createRegisterParam, lines 114-122. A float64 is kept as  *)
(* NaN, an infinity, or the number m * base^exp with its sign, base 10 for *)
(* a decimal text and base 2 for a hexadecimal one. The value of a text is *)
(* kept exactly; float64 rounds it, which moves no value across 0 or 10000.*)
(* The texts are sequences of characters with at most nine significant     *)
(* decimal digits, or seven hexadecimal ones (the integers of the model).  *)
(***************************************************************************)
Finite(neg, m, base, exp) ==
    [kind |-> "finite", neg |-> neg, m |-> m, base |-> base, exp |-> exp]
NaN == [kind |-> "nan", neg |-> FALSE, m |-> 0, base |-> 10, exp |-> 0]
Inf(neg) == [kind |-> "inf", neg |-> neg, m |-> 0, base |-> 10, exp |-> 0]

RECURSIVE Pow(_, _)
Pow(base, n) == IF n = 0 THEN 1 ELSE base * Pow(base, n - 1)

\* the least n for which base^n is above every integer of the model
Beyond(base) == IF base = 10 THEN 10 ELSE 31

\* the sign of |a| - t, for a number a and a whole number t from 0 to 10000
CompareMagnitude(a, t) ==
    IF a.m = 0 THEN (IF t = 0 THEN 0 ELSE 0 - 1)
    ELSE IF a.exp >= 0
    THEN IF a.exp >= Beyond(a.base) THEN 1
         ELSE LET p == Pow(a.base, a.exp)
                  q == t \div p
              IN IF a.m > q THEN 1
                 ELSE IF a.m < q THEN 0 - 1
                 ELSE IF t % p = 0 THEN 0 ELSE 0 - 1
    ELSE IF 0 - a.exp >= Beyond(a.base) THEN (IF t = 0 THEN 1 ELSE 0 - 1)
         ELSE LET p == Pow(a.base, 0 - a.exp)
                  q == a.m \div p
              IN IF q > t THEN 1
                 ELSE IF q < t THEN 0 - 1
                 ELSE IF a.m % p = 0 THEN 0 ELSE 1

\* the sign of a - b, for a number a and a constant b that is a whole number
\* from 0 to 10000
Compare(a, b) ==
    IF a.neg /\ a.m # 0 THEN 0 - 1 ELSE CompareMagnitude(a, b.m)

\* a <= b on float64, b being one of the weight constants: false for NaN
FloatLE(a, b) ==
    IF a.kind = "nan" \/ b.kind = "nan" THEN FALSE
    ELSE IF a.kind = "inf" THEN a.neg \/ (b.kind = "inf" /\ ~b.neg)
    ELSE IF b.kind = "inf" THEN ~b.neg
    ELSE Compare(a, b) <= 0

\* a > b on float64, b being one of the weight constants: false for NaN
FloatGT(a, b) == a.kind # "nan" /\ b.kind # "nan" /\ ~FloatLE(a, b)

UpperLetters == Chars("ABCDEFGHIJKLMNOPQRSTUVWXYZ")
LowerLetters == Chars("abcdefghijklmnopqrstuvwxyz")

\* a letter without its case
LowerChar(c) ==
    IF \E i \in 1..26 : UpperLetters[i] = c
    THEN LowerLetters[CHOOSE i \in 1..26 : UpperLetters[i] = c]
    ELSE c
Lower(text) == [i \in 1..Len(text) |-> LowerChar(text[i])]

\* a to f in either case
IsHexLetter(c) == LowerChar(c) \in {"a", "b", "c", "d", "e", "f"}

\* the value of a decimal or hexadecimal digit
HexValue(c) ==
    IF IsDigit(c) THEN DigitValue(c)
    ELSE 9 + (CHOOSE i \in 1..6 : LowerLetters[i] = LowerChar(c))

\* readFloat, the mantissa: digits of the base, underscores and at most one
\* point; m is the number the digits write, frac the number of digits after
\* the point, rest the text from the first character that is none of these
RECURSIVE ReadMantissa(_, _, _)
ReadMantissa(text, base, st) ==
    IF text = << >> THEN [st EXCEPT !.rest = text]
    ELSE LET c == Head(text) IN
         IF c = "_" THEN ReadMantissa(Tail(text), base, st)
         ELSE IF c = "."
         THEN IF st.sawdot THEN [st EXCEPT !.rest = text]
              ELSE ReadMantissa(Tail(text), base, [st EXCEPT !.sawdot = TRUE])
         ELSE IF IsDigit(c) \/ (base = 16 /\ IsHexLetter(c))
         THEN ReadMantissa(Tail(text), base,
                  [st EXCEPT !.m = base * @ + HexValue(c),
                             !.frac = IF st.sawdot THEN @ + 1 ELSE @,
                             !.sawdigits = TRUE])
         ELSE [st EXCEPT !.rest = text]

\* readFloat, the digits of the exponent: digits and underscores; the number
\* stops growing at 10000
RECURSIVE ReadExponentDigits(_, _)
ReadExponentDigits(text, e) ==
    IF text = << >> THEN [e |-> e, rest |-> text]
    ELSE IF Head(text) = "_" THEN ReadExponentDigits(Tail(text), e)
    ELSE IF IsDigit(Head(text))
    THEN ReadExponentDigits(Tail(text),
                            IF e < 10000 THEN 10 * e + DigitValue(Head(text)) ELSE e)
    ELSE [e |-> e, rest |-> text]

\* readFloat, the exponent after its letter: an optional sign and at least
\* one digit
ReadExponent(text) ==
    LET signed == text # << >> /\ Head(text) \in {"+", "-"}
        digits == IF signed THEN Tail(text) ELSE text
        read == ReadExponentDigits(digits, 0)
    IN
    IF digits = << >> \/ ~IsDigit(Head(digits))
    THEN [ok |-> FALSE, e |-> 0, rest |-> text]
    ELSE [ok |-> TRUE,
          e |-> IF signed /\ Head(text) = "-" THEN 0 - read.e ELSE read.e,
          rest |-> read.rest]

\* underscoreOK, the number proper: an underscore follows a digit (or the
\* base prefix) and precedes a digit; saw is "0" after a digit, "_" after an
\* underscore, "!" after anything else
RECURSIVE UnderscoresSeparateDigits(_, _, _)
UnderscoresSeparateDigits(text, hex, saw) ==
    IF text = << >> THEN saw # "_"
    ELSE LET c == Head(text) IN
         IF IsDigit(c) \/ (hex /\ IsHexLetter(c))
         THEN UnderscoresSeparateDigits(Tail(text), hex, "0")
         ELSE IF c = "_"
         THEN saw = "0" /\ UnderscoresSeparateDigits(Tail(text), hex, "_")
         ELSE saw # "_" /\ UnderscoresSeparateDigits(Tail(text), hex, "!")

\* underscoreOK(s): after an optional sign and an optional base prefix
underscoreOK(text) ==
    LET signed == text # << >> /\ Head(text) \in {"+", "-"}
        body == IF signed THEN Tail(text) ELSE text
        prefixed == Len(body) >= 2 /\ body[1] = "0" /\ LowerChar(body[2]) \in {"b", "o", "x"}
    IN
    IF prefixed
    THEN UnderscoresSeparateDigits(SubSeq(body, 3, Len(body)),
                                   LowerChar(body[2]) = "x", "0")
    ELSE UnderscoresSeparateDigits(body, FALSE, "^")

\* the number of digits of m in the base, 0 for 0
RECURSIVE DigitCount(_, _)
DigitCount(m, base) == IF m = 0 THEN 0 ELSE 1 + DigitCount(m \div base, base)

\* the value is at or above the middle between the largest float64 and 2^1024
\* (1.797693134862315807... * 10^308): ParseFloat reports ErrRange
Overflows(m, base, exp) ==
    LET top == exp + DigitCount(m, base) - 1 IN
    /\ m # 0
    /\ IF base = 10
       THEN top > 308 \/ (top = 308 /\ m * Pow(10, 9 - DigitCount(m, 10)) > 179769313)
       ELSE top >= 1024

\* the value is at or below half the smallest float64 above 0, 2^-1075
\* (2.4703282292... * 10^-324): ParseFloat returns 0
Underflows(m, base, exp) ==
    LET top == exp + DigitCount(m, base) - 1 IN
    /\ m # 0
    /\ IF base = 10
       THEN top < 0 - 324
            \/ (top = 0 - 324 /\ m * Pow(10, 9 - DigitCount(m, 10)) <= 247032822)
       ELSE top < 0 - 1075
            \/ (top = 0 - 1075 /\ m = Pow(2, DigitCount(m, 2) - 1))

\* strconv.ParseFloat(text, 64). nan in any case without a sign, inf or
\* infinity in any case with an optional sign; otherwise an optional sign, an
\* optional 0x, a mantissa with at least one digit, and an exponent (e for a
\* decimal mantissa, p, which is required, for a hexadecimal one), with
\* underscores between digits only. A text that is none of these is a syntax
\* error; a value beyond the float64 range is a range error
ParseFloat(text) ==
    LET signed == text # << >> /\ Head(text) \in {"+", "-"}
        neg == text # << >> /\ Head(text) = "-"
        body == IF signed THEN Tail(text) ELSE text
        hex == Len(body) > 2 /\ body[1] = "0" /\ LowerChar(body[2]) = "x"
        base == IF hex THEN 16 ELSE 10
        mant == ReadMantissa(IF hex THEN SubSeq(body, 3, Len(body)) ELSE body, base,
                             [m |-> 0, frac |-> 0, sawdot |-> FALSE,
                              sawdigits |-> FALSE, rest |-> << >>])
        hasExp == mant.rest # << >>
                     /\ LowerChar(Head(mant.rest)) = (IF hex THEN "p" ELSE "e")
        ex == IF hasExp THEN ReadExponent(Tail(mant.rest))
              ELSE [ok |-> ~hex, e |-> 0, rest |-> mant.rest]
        wellFormed ==
            /\ mant.sawdigits
            /\ ex.ok
            /\ ex.rest = << >>
            /\ (\E i \in 1..Len(text) : text[i] = "_") => underscoreOK(text)
        valueBase == IF hex THEN 2 ELSE 10
        exp == IF hex THEN ex.e - 4 * mant.frac ELSE ex.e - mant.frac
    IN
    IF Lower(text) = << "n", "a", "n" >> THEN [err |-> FALSE, f |-> NaN]
    ELSE IF Lower(body) \in {<< "i", "n", "f" >>,
                             << "i", "n", "f", "i", "n", "i", "t", "y" >>}
    THEN [err |-> FALSE, f |-> Inf(neg)]
    ELSE IF ~wellFormed THEN [err |-> TRUE, f |-> Finite(FALSE, 0, 10, 0)]
    ELSE IF Overflows(mant.m, valueBase, exp) THEN [err |-> TRUE, f |-> Inf(neg)]
    ELSE IF Underflows(mant.m, valueBase, exp)
    THEN [err |-> FALSE, f |-> Finite(neg, 0, valueBase, 0)]
    ELSE [err |-> FALSE, f |-> Finite(neg, mant.m, valueBase, exp)]

\* constant.MinNacosWeight, constant.DefaultNacosWeight, constant.MaxNacosWeight
MinNacosWeight == Finite(FALSE, 0, 10, 0)
DefaultNacosWeight == Finite(FALSE, 1, 10, 0)
MaxNacosWeight == Finite(FALSE, 10000, 10, 0)

\* url.GetParam(constant.WeightKey, "1.0")
DefaultWeightText == << "1", ".", "0" >>

\* lines 115-122
Weight(weightStr) ==
    LET parsed == ParseFloat(weightStr) IN
    IF parsed.err \/ FloatLE(parsed.f, MinNacosWeight) THEN DefaultNacosWeight
    ELSE IF FloatGT(parsed.f, MaxNacosWeight) THEN MaxNacosWeight
    ELSE parsed.f

\* lines 98-136: the registration record, as far as the properties read it
createRegisterParam(url, serviceName, groupName) ==
    [ServiceName |-> serviceName, GroupName |-> groupName,
     Category |-> getCategory(url),
     Weight |-> Weight(GetParamText(url.weight, DefaultWeightText)),
     Enable |-> TRUE, Healthy |-> TRUE, Ephemeral |-> TRUE]

\* the listenerCache key: serviceName + groupName
CacheKey(name, group) == name \o << group >>

\* an IsAvailable that trusts its cached value however old it is
CacheNeverStale(r) == TRUE

\* time.Since(ac.lastCheckTime) < checkInterval
WithinCheckInterval(r) == sinceLastCheck[r] < checkInterval

\* the availability mutex is held by the process that is probing the backend
MutexFree(r) == \A q \in Procs : ~(pc[q] = "ia_probe" /\ frame[q].reg = r)

Running == fault = NoFault

(***************************************************************************)
(* Initial state: the registry as newNacosRegistry returns it, either      *)
(* fully built or, when the client could not be created, the empty struct  *)
(***************************************************************************)
InitRegistries(regs, maxCalls) ==
    /\ budget = maxCalls
    /\ ctorOk \in [regs -> BOOLEAN]
    /\ namingClient = [r \in regs |-> IF ctorOk[r] THEN "client" ELSE "nil"]
    /\ done = [r \in regs |-> IF ctorOk[r] THEN "open" ELSE "nil"]
    /\ lastAvailable = [r \in regs |-> FALSE]
    \* lastCheckTime is the zero time.Time: longer ago than any interval
    /\ sinceLastCheck = [r \in regs |-> checkInterval]
    /\ wg = [r \in regs |-> 0]
    /\ registryUrls = [r \in regs |-> << >>]
    /\ listenerCache = << >>
    /\ handles = << >>
    /\ pc = [p \in Procs |-> IF p \in Callers THEN "idle" ELSE "none"]
    /\ frame = [p \in Procs |-> NoFrame]
    /\ result = [c \in Callers |-> NoResult]
    /\ fault = NoFault
    /\ calls = 0
    /\ events = 0
    /\ closeAttempts = [r \in regs |-> 0]
    /\ closeClientCalls = [r \in regs |-> 0]
    /\ destroyReturned = [r \in regs |-> 0]
    /\ unregLog = [r \in regs |-> << >>]
    /\ appended = [r \in regs |-> << >>]

\* lines 59-77: NewDubboInvoker(url, client) with an exchange client that
\* sharing invokers use, this one included
NewDubboInvoker(sharing) ==
    /\ invoker = [client |-> "client", quitOnce |-> "fresh", destroyed |-> FALSE]
    /\ exchange = [activeNumber |-> sharing, inMap |-> TRUE,
                   decrements |-> 0, closes |-> 0, requests |-> 0]

InitOver(regs, maxCalls) == InitRegistries(regs, maxCalls) /\ NewDubboInvoker(1)

InitWith(maxCalls) == InitOver(Regs, maxCalls)

Init == InitWith(MaxConcCalls)
InitSeq == InitWith(MaxCalls)

\* two registries built in one process: they share the package-level cache
TwoRegs == {"r1", "r2"}
InitTwo == InitOver(TwoRegs, MaxCalls)

(***************************************************************************)
(* Control transfer.  f is the frame (the locals) the process goes on with *)
(***************************************************************************)
Jump(p, label, f) ==
    /\ pc' = [pc EXCEPT ![p] = label]
    /\ frame' = [frame EXCEPT ![p] = f]
    /\ UNCHANGED result

\* the public call of caller p returns val; bk is what its backend call answered
ReturnWith(p, f, val, bk) ==
    /\ pc' = [pc EXCEPT ![p] = "idle"]
    /\ frame' = [frame EXCEPT ![p] = NoFrame]
    /\ result' = [result EXCEPT ![p] = [op |-> f.op, n |-> f.n, reg |-> f.reg, url |-> f.url,
                                        val |-> val, bk |-> bk,
                                        listed |-> << >>, notified |-> << >>,
                                        param |-> << >>, name |-> f.name]]

Return(p, f, val) == ReturnWith(p, f, val, "none")

\* the frame of a public call
CallFrame(op, r, url) == [NoFrame EXCEPT !.op = op, !.n = calls + 1, !.reg = r, !.url = url]

\* a caller may issue one more call
MayCall(p) ==
    /\ fault = NoFault
    /\ pc[p] = "idle"
    /\ calls < budget

\* a subscribeUntilSuccess that gives up when subscribe() returned an error
GiveUpAfterFailure(p, f) == Return(p, f, "nil")

\* subscribeAll returns: to Subscribe (line 194) or to scheduledLookUp, which
\* then sleeps (line 218)
PassEnds(p, f) ==
    IF p \in Callers THEN Jump(p, "sl_go", f)
    ELSE Jump(p, "lk_sleep", [f EXCEPT !.slept = 0])

\* line 233: the loop of subscribeAll goes on with the next name
NextName(p, f) ==
    Jump(p, "sa_loop", [f EXCEPT !.idx = @ + 1, !.name = << >>, !.h = 0, !.ret = "none"])

\* subscribe() returned an error: line 209, subscribeUntilSuccess loops;
\* lines 240-242, subscribeAll logs it and goes on
SubscribeFailed(p, f) ==
    IF f.ctx = "all" THEN NextName(p, f)
    ELSE IF f.ctx = "sus" THEN Jump(p, "ia_select", [f EXCEPT !.ret = "sus"])
    ELSE \* subscribe called by itself: the error goes to its caller
         Return(p, f, "err")

\* a subscribe that takes every name for a service name
NeverEmptyName(serviceName) == FALSE

\* line 248: len(serviceName) == 0
IsEmptyName(serviceName) == Len(serviceName) = 0

\* subscribe() returns nil without having listened (line 250): subscribeAll
\* goes on with the next name, the other callers return nil
SubscribeSkipped(p, f) == IF f.ctx = "all" THEN NextName(p, f) ELSE Return(p, f, "nil")

\* lines 247-252: subscribe(f.name, listener) up to the select of its IsAvailable
subscribe(p, f) ==
    IF IsEmptyName(f.name) THEN SubscribeSkipped(p, f)
    ELSE Jump(p, "ia_select", [f EXCEPT !.ret = "sub"])

\* subscribe() returned nil: lines 209-211 and 199, Subscribe returns nil
SubscribeSucceeded(p, f) == Return(p, f, "nil")

\* IsAvailable returns b to the call site recorded in the frame
IsAvailableReturn(p, f, b) ==
    CASE f.ret = "pub" ->
            \* bk tells whether this call asked the backend (lines 401-407)
            ReturnWith(p, f, IF b THEN "true" ELSE "false",
                       IF pc[p] = "ia_probe" THEN "probe" ELSE "none")
      [] f.ret = "sus" ->
            \* subscribeUntilSuccess, lines 205-208, and subscribe, lines 248-252
            IF ~b THEN Return(p, f, "nil")
            ELSE subscribe(p, f)
      [] f.ret = "sub" ->
            \* subscribe, lines 252-256
            IF b THEN Jump(p, "sub_listen", f) ELSE SubscribeFailed(p, f)
      [] f.ret = "pump" ->
            \* handleServiceEvents, lines 304-308
            IF b THEN Jump(p, "p_next", f) ELSE Jump(p, "p_exit", f)
      [] f.ret = "lk" ->
            \* scheduledLookUp, lines 216-217
            IF b THEN Jump(p, "sa_list", [f EXCEPT !.ret = "none"]) ELSE Jump(p, "exited", f)

(***************************************************************************)
(* IsAvailable, lines 378-408                                              *)
(***************************************************************************)
\* IsAvailable without its select on nr.done
ShutdownNeverObserved(r) == FALSE

\* `case <-nr.done` is ready: the channel is closed (a nil channel never is)
ShutdownObserved(r) == done[r] = "closed"

\* lines 380-384: the non-blocking select on nr.done
SelectDone(p, f) ==
    IF ShutdownObserved(f.reg)
    THEN IsAvailableReturn(p, f, FALSE)
    ELSE Jump(p, "ia_lock", f)

\* a caller calls nr.IsAvailable(): up to the select
IsAvailable(p, r) ==
    /\ MayCall(p)
    /\ calls' = calls + 1
    /\ SelectDone(p, [CallFrame("IsAvailable", r, NoUrl) EXCEPT !.ret = "pub"])
    /\ UNCHANGED << regVars, listenerCache, handles, fault, events, obsVars >>

\* IsAvailable called by subscribeUntilSuccess, subscribe or handleServiceEvents
IsAvailableSelect(p) ==
    /\ Running
    /\ pc[p] = "ia_select"
    /\ SelectDone(p, frame[p])
    /\ UNCHANGED << regVars, listenerCache, handles, fault, calls, events, obsVars >>

\* lines 386-399: take the mutex; answer from the cache inside the interval, else
\* stamp the check time and look at the client
IsAvailableLocked(p) ==
    LET r == frame[p].reg IN
    /\ Running
    /\ pc[p] = "ia_lock"
    /\ MutexFree(r)
    /\ IF WithinCheckInterval(r)
       THEN /\ IsAvailableReturn(p, frame[p], lastAvailable[r])
            /\ UNCHANGED << lastAvailable, sinceLastCheck >>
       ELSE \* line 394: ac.lastCheckTime = time.Now()
            /\ sinceLastCheck' = [sinceLastCheck EXCEPT ![r] = 0]
            /\ IF namingClient[r] = "nil"
               THEN /\ lastAvailable' = [lastAvailable EXCEPT ![r] = FALSE]
                    /\ IsAvailableReturn(p, frame[p], FALSE)
               ELSE /\ Jump(p, "ia_probe", frame[p])
                    /\ UNCHANGED lastAvailable
    /\ UNCHANGED << invokerVars, budget, ctorOk, namingClient, done, wg, registryUrls, listenerCache, handles,
                    fault, calls, events, obsVars >>

\* lines 401-407: the probe GetAllServicesInfo(page size 1), still under the mutex;
\* nr.namingClient is read again, without the client lock
IsAvailableProbe(p) ==
    LET r == frame[p].reg IN
    /\ Running
    /\ pc[p] = "ia_probe"
    /\ IF namingClient[r] = "nil"
       THEN /\ fault' = Panic("nil dereference", p)
            /\ UNCHANGED << pc, frame, result, lastAvailable >>
       ELSE /\ \E ok \in BOOLEAN :
                 /\ lastAvailable' = [lastAvailable EXCEPT ![r] = ok]
                 /\ IsAvailableReturn(p, frame[p], ok)
            /\ UNCHANGED fault
    /\ UNCHANGED << invokerVars, budget, ctorOk, namingClient, done, sinceLastCheck, wg, registryUrls,
                    listenerCache, handles, calls, events, obsVars >>

(***************************************************************************)
(* Register, lines 139-155                                                 *)
(***************************************************************************)
\* what RegisterInstance and DeregisterInstance can return:
\* (true, nil), (false, nil), (_, err)
BackendOutcomes == {"ok", "rejected", "err"}

\* Register without the isRegistry check of lines 150-152
RegisterRecordsUnlessError(outcome) == outcome # "err"

\* lines 147-153: the endpoint is recorded only when err == nil and isRegistry
RegisterRecords(outcome) == outcome = "ok"

\* lines 141-152: nr.GetParam, nr.namingClient.Client().RegisterInstance(param)
Register(p, r, url) ==
    LET f == CallFrame("Register", r, url) IN
    /\ MayCall(p)
    /\ calls' = calls + 1
    /\ IF IndexOutOfRange(url)
       THEN \* line 140: getServiceName, getCategory, common.DubboNodes[role]
            /\ fault' = [kind |-> "index out of range", reg |-> r, op |-> "Register"]
            /\ Jump(p, "reg_call", f)
       ELSE IF ~ctorOk[r] \/ namingClient[r] = "nil"
       THEN /\ fault' = [kind |-> "nil dereference", reg |-> r, op |-> "Register"]
            /\ Jump(p, "reg_call", f)
       ELSE /\ \E outcome \in BackendOutcomes :
                 IF RegisterRecords(outcome)
                 THEN Jump(p, "reg_load", [f EXCEPT !.bk = outcome])
                 ELSE ReturnWith(p, f, "err", outcome)
            /\ UNCHANGED fault
    /\ UNCHANGED << regVars, listenerCache, handles, events, obsVars >>

\* line 153, the read of nr.registryUrls by append
RegisterLoad(p) ==
    /\ Running
    /\ pc[p] = "reg_load"
    /\ Jump(p, "reg_store", [frame[p] EXCEPT !.snap = registryUrls[frame[p].reg]])
    /\ UNCHANGED << regVars, listenerCache, handles, fault, calls, events, obsVars >>

\* line 153, the assignment to nr.registryUrls, and line 154
RegisterStore(p) ==
    LET r == frame[p].reg IN
    /\ Running
    /\ pc[p] = "reg_store"
    /\ registryUrls' = [registryUrls EXCEPT ![r] = Append(frame[p].snap, frame[p].url)]
    /\ appended' = [appended EXCEPT ![r] = Append(@, frame[p].url)]
    /\ ReturnWith(p, frame[p], "nil", frame[p].bk)
    /\ UNCHANGED << invokerVars, budget, ctorOk, namingClient, done, lastAvailable, sinceLastCheck, wg, listenerCache,
                    handles, fault, calls, events, closeAttempts, closeClientCalls,
                    destroyReturned, unregLog >>

(***************************************************************************)
(* UnRegister, lines 170-182                                               *)
(***************************************************************************)
\* an UnRegister that reports only the error of the backend call
UnRegisterIgnoresRefusal(outcome) == IF outcome = "err" THEN "err" ELSE "nil"

\* lines 175-181: the error of the call, an error when the backend reports
\* that nothing was removed, nil otherwise
UnRegisterReturns(outcome) == IF outcome = "ok" THEN "nil" ELSE "err"

\* a caller calls nr.UnRegister(url) and the call returns
UnRegister(p, r, url) ==
    LET f == CallFrame("UnRegister", r, url) IN
    /\ MayCall(p)
    /\ calls' = calls + 1
    /\ IF IndexOutOfRange(url)
       THEN \* line 171: getServiceName, getCategory, common.DubboNodes[role]
            /\ fault' = [kind |-> "index out of range", reg |-> r, op |-> "UnRegister"]
            /\ UNCHANGED << pc, frame, result, unregLog >>
       ELSE IF ~ctorOk[r] \/ namingClient[r] = "nil"
       THEN \* lines 172 and 174: nr.GetParam on a nil URL, Client() on a nil client
            /\ fault' = [kind |-> "nil dereference", reg |-> r, op |-> "UnRegister"]
            /\ UNCHANGED << pc, frame, result, unregLog >>
       ELSE /\ \E outcome \in BackendOutcomes :
                 /\ unregLog' = [unregLog EXCEPT ![r] = Append(@, << url, "caller", outcome >>)]
                 /\ ReturnWith(p, f, UnRegisterReturns(outcome), outcome)
            /\ UNCHANGED fault
    /\ UNCHANGED << regVars, listenerCache, handles, events,
                    closeAttempts, closeClientCalls, destroyReturned, appended >>

(***************************************************************************)
(* Destroy, lines 410-432, with CloseListener and CloseAndNilClient        *)
(***************************************************************************)
\* nacosListener.Close on the listeners in H: they stop listening and a pending
\* or later Next fails; closing a closed listener changes nothing
ListenerClose(H) ==
    [h \in DOMAIN handles |->
        IF h \in H THEN [handles[h] EXCEPT !.closed = TRUE] ELSE handles[h]]

\* a Range that finds no key to visit
NoCachedKeys == {}

\* the keys listenerCache.Range sets out to visit: those of the entries the
\* package-level cache holds when Range is called
CachedKeys == DOMAIN listenerCache

\* a caller calls nr.Destroy(): line 411, nr.CloseListener(), and line 459,
\* listenerCache.Range begins
Destroy(p, r) ==
    /\ MayCall(p)
    /\ calls' = calls + 1
    /\ Jump(p, "cl_range", [CallFrame("Destroy", r, NoUrl) EXCEPT !.todo = CachedKeys])
    /\ UNCHANGED << regVars, listenerCache, handles, fault, events, obsVars >>

\* lines 459-462: Range goes to its next key and hands the value the entry holds
\* at that moment to the callback, which closes the listener.  sync.Map.Range
\* visits no key twice and takes no consistent snapshot: an entry deleted since
\* Range began is passed over, an entry stored since may be visited or not.
\* Line 465: Range returns once it has been through the keys it set out with.
CloseListenerRange(p) ==
    LET f == frame[p] IN
    /\ Running
    /\ pc[p] = "cl_range"
    /\ \/ \E key \in (f.todo \cup DOMAIN listenerCache) \ f.seen :
             IF key \in DOMAIN listenerCache
             THEN /\ handles' = ListenerClose({listenerCache[key]})
                  /\ Jump(p, "cl_delete", [f EXCEPT !.todo = @ \ {key},
                                                     !.seen = @ \cup {key},
                                                     !.key = key])
             ELSE /\ Jump(p, "cl_range", [f EXCEPT !.todo = @ \ {key},
                                                    !.seen = @ \cup {key}])
                  /\ UNCHANGED handles
       \/ /\ f.todo = {}
          /\ Jump(p, "d_select", [f EXCEPT !.seen = {}])
          /\ UNCHANGED handles
    /\ UNCHANGED << regVars, listenerCache, fault, calls, events, obsVars >>

\* sync.Map.Delete(key): the entry under the key goes, whatever it holds by now
CacheDelete(key) == [k \in DOMAIN listenerCache \ {key} |-> listenerCache[k]]

\* line 463: listenerCache.Delete(key), then the callback returns true
CloseListenerDelete(p) ==
    /\ Running
    /\ pc[p] = "cl_delete"
    /\ listenerCache' = CacheDelete(frame[p].key)
    /\ Jump(p, "cl_range", [frame[p] EXCEPT !.key = << >>])
    /\ UNCHANGED << regVars, handles, fault, calls, events, obsVars >>

\* nr.CloseListener(), lines 458-466, a step at a time
CloseListener(p) == CloseListenerRange(p) \/ CloseListenerDelete(p)

\* line 415: `case <-nr.done` of Destroy's select is ready
AlreadyShutDown(r) == done[r] = "closed"

\* lines 414-416: select { case <-nr.done: default: }
DestroySelect(p) ==
    /\ Running
    /\ pc[p] = "d_select"
    /\ IF AlreadyShutDown(frame[p].reg)
       THEN Jump(p, "d_wait", frame[p])
       ELSE Jump(p, "d_close", frame[p])
    /\ UNCHANGED << regVars, listenerCache, handles, fault, calls, events, obsVars >>

\* line 417: close(nr.done); closing a closed or a nil channel panics
DestroyClose(p) ==
    LET r == frame[p].reg IN
    /\ Running
    /\ pc[p] = "d_close"
    /\ closeAttempts' = [closeAttempts EXCEPT ![r] = @ + 1]
    /\ IF done[r] = "open"
       THEN /\ done' = [done EXCEPT ![r] = "closed"]
            /\ Jump(p, "d_wait", frame[p])
            /\ UNCHANGED fault
       ELSE /\ fault' = Panic(IF done[r] = "nil" THEN "close of nil channel"
                              ELSE "close of closed channel", p)
            /\ UNCHANGED << done, pc, frame, result >>
    /\ UNCHANGED << invokerVars, budget, ctorOk, namingClient, lastAvailable, sinceLastCheck, wg, registryUrls,
                    listenerCache, handles, calls, events, closeClientCalls,
                    destroyReturned, unregLog, appended >>

\* a Wait that returns whatever the counter is
WaitNeverBlocks(r) == TRUE

\* sync.WaitGroup.Wait finds the counter at zero and returns at once
WaitGroupDone(r) == wg[r] = 0

\* the goroutines sync.WaitGroup counts as waiters: parked in nr.wg.Wait()
Waiters(r) == {p \in DOMAIN pc : pc[p] = "d_parked" /\ frame[p].reg = r}

\* the state word of the WaitGroup, counter and waiters, is zero
WaitGroupIdle(r) == wg[r] = 0 /\ Waiters(r) = {}

\* line 420: nr.wg.Wait().  With the counter at zero it returns, else the caller
\* is counted as a waiter and parks until a Done that takes the counter to zero
\* releases it.  A released waiter panics when the WaitGroup is in use again by
\* the time it runs.
DestroyWait(p) ==
    LET r == frame[p].reg IN
    /\ Running
    /\ pc[p] \in {"d_wait", "d_woken"}
    /\ IF pc[p] = "d_wait"
       THEN /\ IF WaitGroupDone(r)
               THEN Jump(p, "d_range", frame[p])
               ELSE Jump(p, "d_parked", frame[p])
            /\ UNCHANGED fault
       ELSE IF WaitGroupIdle(r)
       THEN /\ Jump(p, "d_range", frame[p])
            /\ UNCHANGED fault
       ELSE /\ fault' = Panic("WaitGroup is reused before previous Wait has returned", p)
            /\ UNCHANGED << pc, frame, result >>
    /\ UNCHANGED << regVars, listenerCache, handles, calls, events, obsVars >>

\* line 422: range evaluates nr.registryUrls once
DestroyRange(p) ==
    /\ Running
    /\ pc[p] = "d_range"
    /\ Jump(p, "d_unregister", [frame[p] EXCEPT !.snap = registryUrls[frame[p].reg], !.idx = 1])
    /\ UNCHANGED << regVars, listenerCache, handles, fault, calls, events, obsVars >>

\* a Destroy loop that gives up at the first UnRegister that fails
StopAfterFailedUnRegister(p, outcome) ==
    IF outcome = "ok" THEN frame[p].idx + 1 ELSE Len(frame[p].snap) + 1

\* lines 425-427: an error of UnRegister is logged and the loop goes on
NextAfterUnRegister(p, outcome) == frame[p].idx + 1

\* lines 422-428 and 170-182: one iteration, UnRegister(url) with its backend call
DestroyUnRegister(p) ==
    LET r == frame[p].reg
        i == frame[p].idx
    IN
    /\ Running
    /\ pc[p] = "d_unregister"
    /\ i <= Len(frame[p].snap)
    /\ IF ~ctorOk[r] \/ namingClient[r] = "nil"
       THEN /\ fault' = Panic("nil dereference", p)
            /\ UNCHANGED << frame, unregLog >>
       ELSE /\ \E outcome \in BackendOutcomes :
                 /\ unregLog' = [unregLog EXCEPT ![r] =
                                   Append(@, << frame[p].snap[i], "Destroy", outcome >>)]
                 /\ frame' = [frame EXCEPT ![p].idx = NextAfterUnRegister(p, outcome)]
            /\ UNCHANGED fault
    /\ UNCHANGED << regVars, listenerCache, handles, pc, result, calls, events,
                    closeAttempts, closeClientCalls, destroyReturned, appended >>

\* line 430: nr.registryUrls = nil, once the loop is over
DestroyClear(p) ==
    LET r == frame[p].reg IN
    /\ Running
    /\ pc[p] = "d_unregister"
    /\ frame[p].idx > Len(frame[p].snap)
    /\ registryUrls' = [registryUrls EXCEPT ![r] = << >>]
    /\ Jump(p, "d_checkClient", [frame[p] EXCEPT !.snap = << >>, !.idx = 0])
    /\ UNCHANGED << invokerVars, budget, ctorOk, namingClient, done, lastAvailable, sinceLastCheck, wg, listenerCache,
                    handles, fault, calls, events, obsVars >>

\* Destroy returns
DestroyReturn(p) ==
    /\ Return(p, frame[p], "none")
    /\ destroyReturned' = [destroyReturned EXCEPT ![frame[p].reg] = @ + 1]

\* line 469: if nr.namingClient != nil && nr.namingClient.Client() != nil
CloseAndNilClientCheck(p) ==
    /\ Running
    /\ pc[p] = "d_checkClient"
    /\ IF namingClient[frame[p].reg] # "nil"
       THEN Jump(p, "d_closeClient", frame[p]) /\ UNCHANGED destroyReturned
       ELSE DestroyReturn(p)
    /\ UNCHANGED << regVars, listenerCache, handles, fault, calls, events,
                    closeAttempts, closeClientCalls, unregLog, appended >>

\* line 470: nr.namingClient.Client().CloseClient()
CloseAndNilClientClose(p) ==
    LET r == frame[p].reg IN
    /\ Running
    /\ pc[p] = "d_closeClient"
    /\ IF namingClient[r] = "nil"
       THEN /\ fault' = Panic("nil dereference", p)
            /\ UNCHANGED << pc, frame, result, closeClientCalls >>
       ELSE /\ closeClientCalls' = [closeClientCalls EXCEPT ![r] = @ + 1]
            /\ Jump(p, "d_nilClient", frame[p])
            /\ UNCHANGED fault
    /\ UNCHANGED << regVars, listenerCache, handles, calls, events,
                    closeAttempts, destroyReturned, unregLog, appended >>

\* line 471: nr.namingClient = nil
CloseAndNilClientNil(p) ==
    /\ Running
    /\ pc[p] = "d_nilClient"
    /\ namingClient' = [namingClient EXCEPT ![frame[p].reg] = "nil"]
    /\ DestroyReturn(p)
    /\ UNCHANGED << invokerVars, budget, ctorOk, done, lastAvailable, sinceLastCheck, wg, registryUrls, listenerCache,
                    handles, fault, calls, events,
                    closeAttempts, closeClientCalls, unregLog, appended >>

(***************************************************************************)
(* Subscribe, subscribeUntilSuccess and subscribe, lines 185-271           *)
(***************************************************************************)
\* line 191: the interface of the url is constant.AnyValue
IsWildcard(url) == url.iface = AnyValue

\* the rescan goroutines not started yet
FreeLookups == {q \in Lookups : pc[q] = "none"}

\* a Subscribe that takes every url for a consumer's
AnyRoleSubscribes(url) == TRUE

\* lines 186-189: only a consumer subscribes; the role is parsed from the
\* registry.role parameter, an absent or non-numeric one giving 0
IsConsumer(url) == Atoi(GetParam(url.role, "")) = CONSUMER

\* a caller calls nr.Subscribe(url, listener): lines 186-197 and the first
\* IsAvailable of subscribeUntilSuccess, up to its select
Subscribe(p, r, url) ==
    LET f == [CallFrame("Subscribe", r, url) EXCEPT !.name = getSubscribeName(url),
                                                     !.ctx = "sus", !.ret = "sus"]
    IN
    /\ MayCall(p)
    /\ calls' = calls + 1
    /\ IF ~IsConsumer(url) THEN Return(p, f, "nil")
       ELSE IF IsWildcard(url)
       THEN \* line 193: subscribeAll; a rescan goroutine must be left to start
            /\ FreeLookups # {}
            /\ Jump(p, "sa_list", [f EXCEPT !.name = << >>, !.ctx = "all", !.ret = "none"])
       ELSE SelectDone(p, f)
    /\ UNCHANGED << regVars, listenerCache, handles, fault, events, obsVars >>

\* what GetAllServicesInfo can list: the names of the services of the group
ProvidersBar == << "providers", ":", "com.foo.Bar", ":", "1.0", ":", "g1" >>
ConsumersBar == << "consumers", ":", "com.foo.Bar", ":", "1.0", ":", "g1" >>
Listings ==
    { << >>,
      << ProvidersBar, ConsumersBar >>,
      << << "plain" >>, ConsumersBar >>,
      << << "providers" >>, ProvidersBar >> }

\* lines 223-232: the listing and the filter of getAllSubscribeServiceNames; an
\* error and an empty result end the pass
SubscribeAllList(p) ==
    LET f == frame[p]
        r == f.reg
    IN
    /\ Running
    /\ pc[p] = "sa_list"
    /\ IF namingClient[r] = "nil"
       THEN /\ fault' = Panic("nil dereference", p)
            /\ UNCHANGED << pc, frame, result >>
       ELSE /\ \/ PassEnds(p, [f EXCEPT !.bk = "err"])
               \/ \E doms \in Listings :
                    LET names == getAllSubscribeServiceNames(doms, f.url) IN
                    IF Len(names) = 0
                    THEN PassEnds(p, [f EXCEPT !.bk = "ok", !.doms = doms])
                    ELSE Jump(p, "sa_loop", [f EXCEPT !.bk = "ok", !.doms = doms,
                                                       !.snap = names, !.idx = 1])
            /\ UNCHANGED fault
    /\ UNCHANGED << regVars, listenerCache, handles, calls, events, obsVars >>

\* line 234: listenerCache.Load(name + groupName) finds an entry
AlreadySubscribed(name, r) == CacheKey(name, RegistryGroup(r)) \in DOMAIN listenerCache

\* lines 233-239: the next name of the pass is skipped when it is in the cache,
\* else subscribe(name) is called, which begins with IsAvailable (line 252)
SubscribeAllNext(p) ==
    LET f == frame[p] IN
    /\ Running
    /\ pc[p] = "sa_loop"
    /\ IF f.idx > Len(f.snap) THEN PassEnds(p, f)
       ELSE IF AlreadySubscribed(f.snap[f.idx], f.reg) THEN NextName(p, f)
       ELSE subscribe(p, [f EXCEPT !.name = f.snap[f.idx]])
    /\ UNCHANGED << regVars, listenerCache, handles, fault, calls, events, obsVars >>

\* lines 195 and 199: go nr.scheduledLookUp(url, notifyListener); return nil
ScheduleLookUp(p) ==
    LET q == CHOOSE x \in FreeLookups : \A y \in FreeLookups : x[2] <= y[2] IN
    /\ Running
    /\ pc[p] = "sl_go"
    /\ FreeLookups # {}
    /\ pc' = [pc EXCEPT ![p] = "idle", ![q] = "ia_select"]
    /\ frame' = [frame EXCEPT ![p] = NoFrame,
                              ![q] = [NoFrame EXCEPT !.op = "lookup", !.n = frame[p].n,
                                                     !.reg = frame[p].reg,
                                                     !.url = frame[p].url,
                                                     !.ctx = "all", !.ret = "lk"]]
    /\ result' = [result EXCEPT ![p] = [op |-> frame[p].op, n |-> frame[p].n,
                                        reg |-> frame[p].reg, url |-> frame[p].url,
                                        val |-> "nil", bk |-> "none",
                                        listed |-> << >>, notified |-> << >>,
                                        param |-> << >>, name |-> << >>]]
    /\ UNCHANGED << regVars, listenerCache, handles, fault, calls, events, obsVars >>

\* a Sleep that returns at once
NoSleep(q) == TRUE

\* time.Sleep(LookupInterval) returns when the interval has passed
SleptEnough(q) == frame[q].slept >= LookupInterval

\* line 218: time.Sleep(LookupInterval) returns, the loop tests IsAvailable again
LookupWake(q) ==
    /\ Running
    /\ pc[q] = "lk_sleep"
    /\ SleptEnough(q)
    /\ Jump(q, "ia_select", [frame[q] EXCEPT !.slept = 0, !.doms = << >>, !.snap = << >>,
                                             !.idx = 0, !.bk = "none", !.ret = "lk"])
    /\ UNCHANGED << regVars, listenerCache, handles, fault, calls, events, obsVars >>

\* the names subscribe is called with: none, the name of a service
ServiceNames == {<< >>} \cup {getSubscribeName(url) : url \in SubscribeUrls}

\* a caller calls nr.subscribe(serviceName, listener) by itself
SubscribeName(p, r, serviceName) ==
    /\ MayCall(p)
    /\ calls' = calls + 1
    /\ subscribe(p, [CallFrame("subscribe", r, NoUrl) EXCEPT !.name = serviceName,
                                                          !.ctx = "prim"])
    /\ UNCHANGED << regVars, listenerCache, handles, fault, events, obsVars >>

\* a listener as NewNacosListenerWithServiceName builds it
NewListener(name, r) ==
    [name |-> name, reg |-> r, closed |-> FALSE, queue |-> << >>, notified |-> << >>,
     produced |-> << >>]

\* listenService succeeded: the listener is stored under serviceName + groupName
StoreListener(name, r, h) == (CacheKey(name, RegistryGroup(r)) :> h) @@ listenerCache

\* line 256: NewNacosListenerWithServiceName(serviceName, nr.URL, nr.namingClient)
\* reads nr.namingClient; the listener keeps the client it was given
NewNacosListenerWithServiceName(p) ==
    /\ Running
    /\ pc[p] = "sub_listen"
    /\ Jump(p, "sub_listening", [frame[p] EXCEPT !.client = namingClient[frame[p].reg]])
    /\ UNCHANGED << regVars, listenerCache, handles, fault, calls, events, obsVars >>

\* lines 258-263: listener.listenService(serviceName) returns from the remote
\* call, made through the client the listener was built with
listenService(p) ==
    LET r == frame[p].reg
        h == Len(handles) + 1
    IN
    /\ Running
    /\ pc[p] = "sub_listening"
    /\ \/ /\ frame[p].client # "nil"
          /\ h <= MaxHandles
          /\ handles' = Append(handles, NewListener(frame[p].name, r))
          /\ listenerCache' = StoreListener(frame[p].name, r, h)
          /\ Jump(p, "sub_spawn", [frame[p] EXCEPT !.h = h, !.client = "nil"])
       \/ /\ SubscribeFailed(p, [frame[p] EXCEPT !.client = "nil"])
          /\ UNCHANGED << handles, listenerCache >>
    /\ UNCHANGED << regVars, fault, calls, events, obsVars >>

\* lines 256-263 of subscribe, a step at a time
ListenService(p) == NewNacosListenerWithServiceName(p) \/ listenService(p)

\* a subscribe that starts its goroutine without counting it
WaitGroupNoAdd(r) == wg

\* line 265: nr.wg.Add(1)
WaitGroupAdd(r) == [wg EXCEPT ![r] = @ + 1]

\* sync.WaitGroup.Add(1) takes the counter from zero while waiters are counted:
\* a Done has taken it to zero and has not yet released them
AddDuringWait(r) == wg[r] = 0 /\ Waiters(r) # {}

\* lines 265-270: nr.wg.Add(1) and the go statement; subscribe returns nil
SpawnPump(p) ==
    LET r == frame[p].reg
        q == << "pump", frame[p].h >>
        started == [NoFrame EXCEPT !.op = "pump", !.reg = r,
                                   !.h = frame[p].h, !.ret = "pump"]
    IN
    /\ Running
    /\ pc[p] = "sub_spawn"
    /\ IF AddDuringWait(r)
       THEN \* Add panics: it ran concurrently with Wait
            /\ fault' = Panic("WaitGroup misuse: Add called concurrently with Wait", p)
            /\ UNCHANGED << wg, pc, frame, result >>
       ELSE /\ wg' = WaitGroupAdd(r)
            /\ UNCHANGED fault
            /\ IF frame[p].ctx = "all"
               THEN \* back in the loop of subscribeAll
                    /\ pc' = [pc EXCEPT ![p] = "sa_loop", ![q] = "ia_select"]
                    /\ frame' = [frame EXCEPT ![p] = [@ EXCEPT !.idx = @ + 1,
                                                               !.name = << >>,
                                                               !.h = 0, !.ret = "none"],
                                              ![q] = started]
                    /\ UNCHANGED result
               ELSE \* subscribeUntilSuccess and Subscribe return
                    /\ pc' = [pc EXCEPT ![p] = "idle", ![q] = "ia_select"]
                    /\ frame' = [frame EXCEPT ![p] = NoFrame, ![q] = started]
                    /\ result' = [result EXCEPT ![p] =
                                     [op |-> frame[p].op, n |-> frame[p].n, reg |-> r,
                                      url |-> frame[p].url, val |-> "nil", bk |-> "none",
                                      listed |-> << >>, notified |-> << >>,
                                      param |-> << >>, name |-> frame[p].name]]
    /\ UNCHANGED << invokerVars, budget, ctorOk, namingClient, done, lastAvailable, sinceLastCheck, registryUrls,
                    listenerCache, handles, calls, events, obsVars >>

(***************************************************************************)
(* handleServiceEvents, lines 301-317                                      *)
(***************************************************************************)
\* nacosListener.Next returns an error: the listener has been closed
ListenerNextFails(h) == handles[h].closed

\* nacosListener.Next returns an event: one is pending
ListenerHasEvent(h) == handles[h].queue # << >>

\* nacosListener.Next returns the oldest pending event
ListenerNext(h) == Head(handles[h].queue)

\* a delivery that hands the event to the sink a second time
NotifyTwice(sink, serviceEvent) == Append(Append(sink, serviceEvent), serviceEvent)

\* line 315: notifyListener.Notify(serviceEvent), the event as Next returned it
Notify(sink, serviceEvent) == Append(sink, serviceEvent)

\* a delivery goroutine that hands the receive error to the sink as an event
NotifyError(h) == [handles EXCEPT ![h].notified = Append(@, 0)]

\* lines 309-312: the receive error is logged and the goroutine returns; the
\* listeners and their sinks are as before
OnNextError(h) == handles

\* line 308: listener.Next() blocks until it returns an event or an error;
\* lines 309-312 return on the error, line 315 passes the event to Notify
PumpNext(q) ==
    LET h == frame[q].h IN
    /\ Running
    /\ pc[q] = "p_next"
    /\ \/ /\ ListenerNextFails(h)
          /\ Jump(q, "p_exit", frame[q])
          /\ handles' = OnNextError(h)
       \/ /\ ListenerHasEvent(h)
          /\ handles' = [handles EXCEPT ![h].queue = Tail(@),
                                        ![h].notified = Notify(@, ListenerNext(h))]
          /\ Jump(q, "ia_select", frame[q])
    /\ UNCHANGED << regVars, listenerCache, fault, calls, events, obsVars >>

\* line 302: the deferred listener.Close() runs as handleServiceEvents returns
PumpClose(q) ==
    /\ Running
    /\ pc[q] = "p_exit"
    /\ handles' = ListenerClose({frame[q].h})
    /\ pc' = [pc EXCEPT ![q] = "p_done"]
    /\ UNCHANGED << regVars, listenerCache, frame, result, fault, calls, events, obsVars >>

\* line 267: the deferred nr.wg.Done() takes one off the counter; when that
\* takes the counter to zero with waiters counted, it then resets the state word
\* and releases every waiter
PumpDone(q) ==
    LET r == frame[q].reg IN
    /\ Running
    /\ pc[q] \in {"p_done", "p_release"}
    /\ IF pc[q] = "p_done"
       THEN /\ wg' = [wg EXCEPT ![r] = @ - 1]
            /\ pc' = [pc EXCEPT ![q] = IF wg[r] = 1 /\ Waiters(r) # {}
                                       THEN "p_release" ELSE "exited"]
       ELSE /\ pc' = [x \in DOMAIN pc |->
                        IF x = q THEN "exited"
                        ELSE IF x \in Waiters(r) THEN "d_woken" ELSE pc[x]]
            /\ UNCHANGED wg
    /\ UNCHANGED << invokerVars, budget, ctorOk, namingClient, done, lastAvailable, sinceLastCheck, registryUrls,
                    listenerCache, handles, frame, result, fault, calls, events, obsVars >>

\* the deferred calls of the delivery goroutine, in the order they run
PumpExit(q) == PumpClose(q) \/ PumpDone(q)

(***************************************************************************)
(* The registration record Register builds, lines 140-142                  *)
(***************************************************************************)
\* the weight parameters of the endpoints registered: absent, not a number,
\* at, below and above the thresholds, signed, with a point, special values
WeightTexts ==
    { << >>, << "a", "b", "c" >>, << "0" >>, << "2", "0", "0", "0", "0" >>,
      << "5", ".", "5" >>, << "1", "0", "0", "0", "0" >>,
      << "1", "0", "0", "0", "0", ".", "5" >>, << "-", "1" >>, << "0", ".", "1" >>,
      << "1", ".", "0" >>, << "+", "5" >>, << "5", "." >>, << ".", "5" >>, << "." >>,
      << "-" >>, << "1", ".", "2", ".", "3" >>,
      << "N", "a", "N" >>, << "n", "a", "n" >>, << "I", "n", "f" >>,
      << "-", "I", "n", "f" >>, << "+", "n", "a", "n" >> }
    \cup {Chars(text) : text \in
             {"1e3", "1E3", "1e5", "1e-2", "1e", "1e400", "1e-400", "0x1p4", "0X1P-1",
              "0x1", "1p4", "0x1p1024", "1_0", "_1", "1__0", "1e1_0", "Infinity"}}

WeightUrls ==
    {[Url("3", << "a" >>, << "b" >>, << "c" >>) EXCEPT !.weight = w] : w \in WeightTexts}

\* endpoints whose interface, version and group are empty, blank, plain, or
\* hold the separator, as providers and as consumers
IdentityUrls ==
    {Url(role, iface, version, << >>) :
        role \in {"3", "0"},
        iface \in {<< >>, << " " >>, << "\t" >>, << " \n" >>, << VerticalTab >>,
                   << NoBreakSpace, NextLine >>, << "a" >>, << "a", ":", "b" >>},
        version \in {<< >>, << "b" >>, << "c" >>, << "b", ":", "c" >>}}

ParamUrls == WeightUrls \cup IdentityUrls \cup OutOfRangeUrls

\* a caller calls nr.Register(url): lines 140-142 build the record that line
\* 143 passes to RegisterInstance
RegisterBuildParam(p, r, url) ==
    LET f == CallFrame("createRegisterParam", r, url) IN
    /\ MayCall(p)
    /\ calls' = calls + 1
    /\ IF IndexOutOfRange(url)
       THEN \* line 140: getServiceName, getCategory, common.DubboNodes[role]
            /\ fault' = [kind |-> "index out of range", reg |-> r, op |-> "Register"]
            /\ UNCHANGED << pc, frame, result >>
       ELSE IF ~ctorOk[r]
       THEN \* line 141: nr.GetParam on the nil URL of the empty struct
            /\ fault' = [kind |-> "nil dereference", reg |-> r, op |-> "Register"]
            /\ UNCHANGED << pc, frame, result >>
       ELSE /\ result' = [result EXCEPT ![p] =
                   [NoResult EXCEPT !.op = f.op, !.n = f.n, !.reg = r, !.url = url,
                                    !.param = createRegisterParam(url, getServiceName(url),
                                                                  RegistryGroup(r))]]
            /\ UNCHANGED << pc, frame, fault >>
    /\ UNCHANGED << regVars, listenerCache, handles, events, obsVars >>

(***************************************************************************)
(* LoadSubscribeInstances, lines 333-351                                   *)
(***************************************************************************)
\* an instance of the backend: its place in the registry and whether its
\* metadata describe an endpoint
Instances == [id : 1..2, meta : BOOLEAN]

\* what SelectAllInstances can list
RECURSIVE ListsOf(_)
ListsOf(n) ==
    IF n = 0 THEN {<< >>}
    ELSE LET shorter == ListsOf(n - 1) IN
         shorter \cup {Append(l, i) : l \in {s \in shorter : Len(s) = n - 1}, i \in Instances}
InstanceLists == ListsOf(MaxInstances)

\* generateUrl(instance): the endpoint of the instance, nil when the metadata of
\* the instance do not describe one
NilEndpoint == 0
generateUrl(instance) == IF instance.meta THEN instance.id ELSE NilEndpoint

\* line 347: &registry.ServiceEvent{Action: remoting.EventTypeAdd, Service: newUrl}
AddEvent(newUrl) == [action |-> "add", service |-> newUrl]

\* a loop that notifies for the first instance only
NotifyFirst(instances) ==
    IF instances # << >> /\ generateUrl(Head(instances)) # NilEndpoint
    THEN << AddEvent(generateUrl(Head(instances))) >>
    ELSE << >>

\* lines 345-349: the events the loop over the instances passes to notify.Notify
RECURSIVE NotifyInstances(_)
NotifyInstances(instances) ==
    IF instances = << >> THEN << >>
    ELSE LET newUrl == generateUrl(Head(instances)) IN
         (IF newUrl # NilEndpoint THEN << AddEvent(newUrl) >> ELSE << >>)
             \o NotifyInstances(Tail(instances))

\* a caller calls nr.LoadSubscribeInstances(url, notify) and the call returns
LoadSubscribeInstances(p, r, url) ==
    LET f == CallFrame("LoadSubscribeInstances", r, url)
        returned(val, bk, listed, notified) ==
            [op |-> f.op, n |-> f.n, reg |-> r, url |-> url, val |-> val, bk |-> bk,
             listed |-> listed, notified |-> notified, param |-> << >>,
             name |-> << >>]
    IN
    /\ MayCall(p)
    /\ calls' = calls + 1
    /\ IF namingClient[r] = "nil"
       THEN \* line 336: nr.namingClient.Client() on a nil client
            /\ fault' = [kind |-> "nil dereference", reg |-> r, op |-> f.op]
            /\ UNCHANGED << pc, frame, result >>
       ELSE /\ \/ \* lines 340-343: SelectAllInstances failed
                  result' = [result EXCEPT ![p] = returned("err", "err", << >>, << >>)]
               \/ \* lines 345-350
                  \E instances \in InstanceLists :
                      result' = [result EXCEPT ![p] =
                          returned("nil", "ok", instances, NotifyInstances(instances))]
            /\ UNCHANGED << pc, frame, fault >>
    /\ UNCHANGED << regVars, listenerCache, handles, events, obsVars >>

(***************************************************************************)
(* UnSubscribe, lines 320-330, with createSubscribeParam, lines 353-370    *)
(***************************************************************************)
\* a nil callback argument, a nil *vo.SubscribeParam
NilCallback == 0
NilParam == << >>

\* listener.Callback of the listener h: the callbacks are told apart by their
\* listener
Callback(h) == h

\* a createSubscribeParam that builds a parameter without looking at the cache
createSubscribeParamUncached(serviceName, groupName, cb) ==
    << serviceName, cb, groupName >>

\* lines 353-370: ServiceName, SubscribeCallback and GroupName of the parameter;
\* without a callback argument the callback of the cached listener is taken,
\* and nil is returned when there is none
createSubscribeParam(serviceName, groupName, cb) ==
    LET key == CacheKey(serviceName, groupName) IN
    IF cb = NilCallback
    THEN IF key \notin DOMAIN listenerCache
         THEN NilParam
         ELSE << serviceName, Callback(listenerCache[key]), groupName >>
    ELSE << serviceName, cb, groupName >>

\* the results of Client().Unsubscribe(param)
UnsubscribeOutcomes == {"ok", "err"}

\* a caller calls nr.UnSubscribe(url, _): line 321, createSubscribeParam with
\* its listenerCache.Load (line 355), and lines 322-324, return nil without a
\* parameter
UnSubscribe(p, r, url) ==
    LET f == CallFrame("UnSubscribe", r, url)
        param == createSubscribeParam(getSubscribeName(url), RegistryGroup(r), NilCallback)
    IN
    /\ MayCall(p)
    /\ calls' = calls + 1
    /\ IF ~ctorOk[r]
       THEN \* line 321: nr.GetParam on a nil URL
            /\ fault' = [kind |-> "nil dereference", reg |-> r, op |-> f.op]
            /\ UNCHANGED << pc, frame, result >>
       ELSE IF param = NilParam
       THEN \* lines 322-324
            /\ result' = [result EXCEPT ![p] =
                   [op |-> f.op, n |-> f.n, reg |-> r, url |-> url, val |-> "nil",
                    bk |-> "none", listed |-> << >>, notified |-> << >>,
                    param |-> NilParam, name |-> << >>]]
            /\ UNCHANGED << pc, frame, fault >>
       ELSE /\ Jump(p, "un_client", [f EXCEPT !.param = param])
            /\ UNCHANGED fault
    /\ UNCHANGED << regVars, listenerCache, handles, events, obsVars >>

\* line 325: nr.namingClient.Client() reads nr.namingClient, and the remote
\* Unsubscribe(param) begins on that client
UnSubscribeClient(p) ==
    /\ Running
    /\ pc[p] = "un_client"
    /\ IF namingClient[frame[p].reg] = "nil"
       THEN \* Client() on a nil client
            /\ fault' = Panic("nil dereference", p)
            /\ UNCHANGED << pc, frame, result >>
       ELSE /\ Jump(p, "un_call", [frame[p] EXCEPT !.client = namingClient[frame[p].reg]])
            /\ UNCHANGED fault
    /\ UNCHANGED << regVars, listenerCache, handles, calls, events, obsVars >>

\* lines 325-329: Unsubscribe(param) returns; its error is returned as a new
\* error, nil otherwise
UnSubscribeReturn(p) ==
    LET f == frame[p] IN
    /\ Running
    /\ pc[p] = "un_call"
    /\ \E outcome \in UnsubscribeOutcomes :
           /\ pc' = [pc EXCEPT ![p] = "idle"]
           /\ frame' = [frame EXCEPT ![p] = NoFrame]
           /\ result' = [result EXCEPT ![p] =
                  [op |-> f.op, n |-> f.n, reg |-> f.reg, url |-> f.url,
                   val |-> IF outcome = "err" THEN "err" ELSE "nil", bk |-> outcome,
                   listed |-> << >>, notified |-> << >>, param |-> f.param,
                   name |-> << >>]]
    /\ UNCHANGED << regVars, listenerCache, handles, fault, calls, events, obsVars >>

(***************************************************************************)
(* DubboInvoker, src/unnamed/part_001: Destroy, lines 193-207, and Invoke, *)
(* lines 94-162. The exchange client and BaseInvoker are outside the       *)
(* repository files read here: DecreaseActiveNumber subtracts one from the *)
(* uint32 counter atomically and returns the new value, BaseInvoker.Destroy*)
(* makes IsAvailable answer false.                                         *)
(***************************************************************************)
\* everything of the registries, which a DubboInvoker does not touch
registryVars == << ctorOk, namingClient, done, lastAvailable, sinceLastCheck, wg,
                  registryUrls, listenerCache, handles, events, budget, obsVars >>

\* a Once whose Do runs its function on every call
OnceAlwaysRuns(once) == "run"

\* sync.Once.Do: the function runs on the first call, a call during that run
\* waits for it, a call after it returns at once
OnceDo(once) ==
    CASE once = "fresh" -> "run"
      [] once = "running" -> "wait"
      [] once = "done" -> "skip"

\* client.DecreaseActiveNumber(): the new value of the uint32 counter. A value
\* above 2^31 - 1 is kept as the negative number with the same 32 bits, so
\* that the counter wraps from 0 to -1, which stands for 2^32 - 1
DecreaseActiveNumber(n) == IF n = -2147483647 - 1 THEN 2147483647 ELSE n - 1

\* a caller calls di.Destroy(): line 195, quitOnce.Do
InvokerDestroy(p) ==
    LET f == CallFrame("DubboInvoker.Destroy", "none", NoUrl) IN
    /\ MayCall(p)
    /\ calls' = calls + 1
    /\ Jump(p, "di_once", f)
    /\ UNCHANGED << registryVars, invokerVars, fault >>

\* line 195: Do returns, waits, or starts the function
InvokerDestroyOnce(p) ==
    /\ Running
    /\ pc[p] = "di_once"
    /\ OnceDo(invoker.quitOnce) # "wait"
    /\ IF OnceDo(invoker.quitOnce) = "skip"
       THEN /\ Return(p, frame[p], "none")
            /\ UNCHANGED invoker
       ELSE /\ invoker' = [invoker EXCEPT !.quitOnce = "running"]
            /\ Jump(p, "di_get", frame[p])
    /\ UNCHANGED << registryVars, exchange, fault, calls >>

\* lines 196-197: client := di.getClient(); if client != nil
InvokerDestroyGet(p) ==
    /\ Running
    /\ pc[p] = "di_get"
    /\ Jump(p, IF invoker.client = "nil" THEN "di_base" ELSE "di_dec",
            [frame[p] EXCEPT !.client = invoker.client])
    /\ UNCHANGED << registryVars, invokerVars, fault, calls >>

\* line 198: activeNumber := client.DecreaseActiveNumber()
InvokerDestroyDecrease(p) ==
    /\ Running
    /\ pc[p] = "di_dec"
    /\ exchange' = [exchange EXCEPT !.activeNumber = DecreaseActiveNumber(@),
                                    !.decrements = @ + 1]
    /\ Jump(p, "di_set", [frame[p] EXCEPT
                              !.activeNumber = DecreaseActiveNumber(exchange.activeNumber)])
    /\ UNCHANGED << registryVars, invoker, fault, calls >>

\* lines 199-200: di.setClient(nil); if activeNumber == 0
InvokerDestroySetNil(p) ==
    /\ Running
    /\ pc[p] = "di_set"
    /\ invoker' = [invoker EXCEPT !.client = "nil"]
    /\ Jump(p, IF frame[p].activeNumber = 0 THEN "di_delete" ELSE "di_base", frame[p])
    /\ UNCHANGED << registryVars, exchange, fault, calls >>

\* line 201: exchangeClientMap.Delete(di.GetURL().Location)
InvokerDestroyDelete(p) ==
    /\ Running
    /\ pc[p] = "di_delete"
    /\ exchange' = [exchange EXCEPT !.inMap = FALSE]
    /\ Jump(p, "di_close", frame[p])
    /\ UNCHANGED << registryVars, invoker, fault, calls >>

\* line 202: client.Close()
InvokerDestroyClose(p) ==
    /\ Running
    /\ pc[p] = "di_close"
    /\ exchange' = [exchange EXCEPT !.closes = @ + 1]
    /\ Jump(p, "di_base", frame[p])
    /\ UNCHANGED << registryVars, invoker, fault, calls >>

\* lines 205-207: di.BaseInvoker.Destroy(); the function ends, the Once is
\* done and Destroy returns
InvokerDestroyBase(p) ==
    /\ Running
    /\ pc[p] = "di_base"
    /\ invoker' = [invoker EXCEPT !.destroyed = TRUE, !.quitOnce = "done"]
    /\ Return(p, frame[p], "none")
    /\ UNCHANGED << registryVars, exchange, fault, calls >>

\* a caller calls di.Invoke(ctx, ivc): lines 99-105
Invoke(p) ==
    LET f == CallFrame("DubboInvoker.Invoke", "none", NoUrl) IN
    /\ MayCall(p)
    /\ calls' = calls + 1
    /\ IF invoker.destroyed
       THEN Return(p, f, "ErrDestroyedInvoker")
       ELSE Jump(p, "inv_get", f)
    /\ UNCHANGED << registryVars, invokerVars, fault >>

\* lines 107-112: client := di.getClient(); if client == nil
InvokeGet(p) ==
    /\ Running
    /\ pc[p] = "inv_get"
    /\ IF invoker.client = "nil"
       THEN Return(p, frame[p], "ErrClientClosed")
       ELSE Jump(p, "inv_send", [frame[p] EXCEPT !.client = invoker.client])
    /\ UNCHANGED << registryVars, invokerVars, fault, calls >>

\* the results of client.Request, client.AsyncRequest and client.Send
RequestOutcomes == {"nil", "err"}

\* lines 140-161: a synchronous invocation without a reply target returns
\* ErrNoReply; otherwise the request goes out through the client
InvokeSend(p) ==
    /\ Running
    /\ pc[p] = "inv_send"
    /\ \/ /\ ReturnWith(p, frame[p], "ErrNoReply", "none")
          /\ UNCHANGED exchange
       \/ \E err \in RequestOutcomes :
             /\ exchange' = [exchange EXCEPT !.requests = @ + 1]
             /\ ReturnWith(p, frame[p], err, "sent")
    /\ UNCHANGED << registryVars, invoker, fault, calls >>

(***************************************************************************)
(* Environment: the backend pushes a change event, the clock advances      *)
(***************************************************************************)
\* the backend pushes the next change event to the open listener h, while the
\* run has produced fewer than limit events
Produce(h, limit) ==
    /\ Running
    /\ h \in DOMAIN handles
    /\ ~handles[h].closed
    /\ events < limit
    /\ events' = events + 1
    /\ handles' = [handles EXCEPT ![h].queue = Append(@, events + 1),
                                  ![h].produced = Append(@, events + 1)]
    /\ UNCHANGED << regVars, listenerCache, pc, frame, result, fault, calls, obsVars >>

BackendEvent(h) == Produce(h, MaxEvents)

Min(a, b) == IF a < b THEN a ELSE b

\* scheduledLookUp is inside time.Sleep(LookupInterval) and has to sleep on
Sleeping(q) == pc[q] = "lk_sleep" /\ frame[q].slept < LookupInterval

\* time passes; it is observed only while some registry is inside its interval
\* or some goroutine sleeps
Tick(d) ==
    /\ Running
    /\ \/ \E r \in DOMAIN sinceLastCheck : WithinCheckInterval(r)
       \/ \E q \in Lookups : Sleeping(q)
    /\ sinceLastCheck' = [r \in DOMAIN sinceLastCheck |-> Min(sinceLastCheck[r] + d, checkInterval)]
    /\ frame' = [q \in Procs |->
                    IF q \in Lookups /\ Sleeping(q)
                    THEN [frame[q] EXCEPT !.slept = Min(@ + d, LookupInterval)]
                    ELSE frame[q]]
    /\ UNCHANGED << invokerVars, budget, ctorOk, namingClient, done, lastAvailable, wg, registryUrls,
                    listenerCache, handles, pc, result, fault, calls, events, obsVars >>

(***************************************************************************)
(* Specifications                                                          *)
(***************************************************************************)
\* a caller issues a public call
Call(p) ==
    \E r \in Regs :
        \/ Destroy(p, r)
        \/ IsAvailable(p, r)
        \/ \E url \in RegisterUrls : Register(p, r, url)
        \/ \E url \in SubscribeUrls : Subscribe(p, r, url)

\* a step of IsAvailable, whoever called it
IsAvailableStep(p) ==
    \/ IsAvailableSelect(p)
    \/ IsAvailableLocked(p)
    \/ IsAvailableProbe(p)

\* a caller goes on with the call it is in
CallerStep(p) ==
    \/ IsAvailableStep(p)
    \/ RegisterLoad(p)
    \/ RegisterStore(p)
    \/ CloseListener(p)
    \/ DestroySelect(p)
    \/ DestroyClose(p)
    \/ DestroyWait(p)
    \/ DestroyRange(p)
    \/ DestroyUnRegister(p)
    \/ DestroyClear(p)
    \/ CloseAndNilClientCheck(p)
    \/ CloseAndNilClientClose(p)
    \/ CloseAndNilClientNil(p)
    \/ ListenService(p)
    \/ SpawnPump(p)

\* a step of a delivery goroutine
PumpStep(q) ==
    \/ IsAvailableStep(q)
    \/ PumpNext(q)
    \/ PumpExit(q)

Environment ==
    \/ \E h \in Handles : BackendEvent(h)
    \/ \E d \in TickSteps : Tick(d)

\* callers on any goroutine, in any interleaving
Next ==
    \/ \E p \in Callers : Call(p) \/ CallerStep(p)
    \/ \E q \in Pumps : PumpStep(q)
    \/ Environment

Spec == Init /\ [][Next]_vars

\* one goroutine issues the calls, one after the other
SeqCaller == << "caller", 1 >>

NextSeq ==
    \/ Call(SeqCaller) \/ CallerStep(SeqCaller)
    \/ \E q \in Pumps : PumpStep(q)
    \/ Environment

SpecSeq == InitSeq /\ [][NextSeq]_vars

\* the Go scheduler runs every runnable goroutine again: a caller inside a call
\* and a delivery goroutine take their next step when one stays possible
Fairness ==
    /\ \A p \in Callers : WF_vars(CallerStep(p))
    /\ \A q \in Pumps : WF_vars(PumpStep(q))

\* line 387: a goroutine that waits in ac.mu.Lock() gets the mutex when it is
\* unlocked again and again: sync.Mutex hands the lock to a waiter that has
\* waited long (starvation mode)
MutexFairness(procs) == \A p \in procs : SF_vars(IsAvailableLocked(p))

\* the callers, the delivery goroutines and the clock, while the backend
\* produces no change event
NextQuiet ==
    \/ \E p \in Callers : Call(p) \/ CallerStep(p)
    \/ \E q \in Pumps : PumpStep(q)
    \/ \E d \in TickSteps : Tick(d)

SpecFair == Init /\ [][NextQuiet]_vars /\ Fairness

\* one goroutine calls Subscribe, for interests of any role
SubscribeCall(p) == \E r \in Regs : \E url \in RoleUrls : Subscribe(p, r, url)

NextSubscribe ==
    \/ SubscribeCall(SeqCaller)
    \/ IsAvailableStep(SeqCaller)
    \/ ListenService(SeqCaller)
    \/ SpawnPump(SeqCaller)
    \/ \E q \in Pumps : PumpStep(q)
    \/ Environment

SpecSubscribe == Init /\ [][NextSubscribe]_vars

\* the urls of a wildcard interest: every service of the default category, of
\* the consumers category, of both categories
WildcardUrls ==
    {[Url("0", AnyValue, << >>, << >>) EXCEPT !.category = c] :
        c \in {<< >>, << "consumers" >>, << "providers", ",", "consumers" >>}}

\* a step of a subscribeAll pass, whoever runs it
SubscribeAllStep(p) ==
    \/ SubscribeAllList(p)
    \/ SubscribeAllNext(p)
    \/ IsAvailableStep(p)
    \/ ListenService(p)
    \/ SpawnPump(p)

\* a step of a rescan goroutine
LookupStep(q) == SubscribeAllStep(q) \/ LookupWake(q)

\* one goroutine subscribes to a wildcard interest, while the backend produces
\* no change event: a delivery goroutine that finds the registry available
\* stays in listener.Next()
NextWildcard ==
    \/ \E r \in Regs : \E url \in WildcardUrls : Subscribe(SeqCaller, r, url)
    \/ SubscribeAllStep(SeqCaller)
    \/ ScheduleLookUp(SeqCaller)
    \/ \E q \in Lookups : LookupStep(q)
    \/ \E q \in Pumps : IsAvailableStep(q) \/ PumpExit(q)
    \/ \E d \in TickSteps : Tick(d)

SpecWildcard == InitSeq /\ [][NextWildcard]_vars

\* one goroutine subscribes to services while the backend pushes several change
\* events to the listeners
NextDelivery ==
    \/ \E r \in Regs : \E url \in SubscribeUrls : Subscribe(SeqCaller, r, url)
    \/ IsAvailableStep(SeqCaller)
    \/ ListenService(SeqCaller)
    \/ SpawnPump(SeqCaller)
    \/ \E q \in Pumps : PumpStep(q)
    \/ \E h \in Handles : Produce(h, MaxPushes)
    \/ \E d \in TickSteps : Tick(d)

SpecDelivery == Init /\ [][NextDelivery]_vars

\* callers on any goroutine build the registration records of endpoints
NextParam ==
    \E p \in Callers : \E r \in Regs : \E url \in ParamUrls : RegisterBuildParam(p, r, url)

SpecParam == Init /\ [][NextParam]_vars

\* callers on any goroutine load the instances of a service
NextLoad ==
    \E p \in Callers : \E r \in Regs : \E url \in SubscribeUrls :
        LoadSubscribeInstances(p, r, url)

SpecLoad == Init /\ [][NextLoad]_vars

\* one goroutine registers and unregisters endpoints and shuts the registry
\* down, no service being subscribed
NextLedger ==
    \/ \E r \in Regs : \E url \in RegisterUrls \cup OutOfRangeUrls :
          Register(SeqCaller, r, url) \/ UnRegister(SeqCaller, r, url)
    \/ \E r \in Regs : Destroy(SeqCaller, r)
    \/ RegisterLoad(SeqCaller)
    \/ RegisterStore(SeqCaller)
    \/ CloseListenerRange(SeqCaller)
    \/ DestroySelect(SeqCaller)
    \/ DestroyClose(SeqCaller)
    \/ DestroyWait(SeqCaller)
    \/ DestroyRange(SeqCaller)
    \/ DestroyUnRegister(SeqCaller)
    \/ DestroyClear(SeqCaller)
    \/ CloseAndNilClientCheck(SeqCaller)
    \/ CloseAndNilClientClose(SeqCaller)
    \/ CloseAndNilClientNil(SeqCaller)

SpecLedger == InitSeq /\ [][NextLedger]_vars

\* one goroutine registers endpoints and shuts the registry down while another
\* subscribes to a service; the backend produces no change event
OtherCaller == << "caller", 2 >>

NextTeardown ==
    \/ \E r \in Regs : \E url \in RegisterUrls : Register(SeqCaller, r, url)
    \/ \E r \in Regs : Destroy(SeqCaller, r)
    \/ RegisterLoad(SeqCaller)
    \/ RegisterStore(SeqCaller)
    \/ CloseListener(SeqCaller)
    \/ DestroySelect(SeqCaller)
    \/ DestroyClose(SeqCaller)
    \/ DestroyWait(SeqCaller)
    \/ DestroyRange(SeqCaller)
    \/ DestroyUnRegister(SeqCaller)
    \/ DestroyClear(SeqCaller)
    \/ CloseAndNilClientCheck(SeqCaller)
    \/ CloseAndNilClientClose(SeqCaller)
    \/ CloseAndNilClientNil(SeqCaller)
    \/ \E r \in Regs : \E url \in SubscribeUrls : Subscribe(OtherCaller, r, url)
    \/ IsAvailableStep(OtherCaller)
    \/ ListenService(OtherCaller)
    \/ SpawnPump(OtherCaller)
    \/ \E q \in Pumps : PumpStep(q)
    \/ \E d \in TickSteps : Tick(d)

SpecTeardown == InitSeq /\ [][NextTeardown]_vars

\* one goroutine subscribes to a service and shuts the registry down while
\* another unsubscribes from it, at any moment of the first one's calls, and
\* the backend pushes change events
NextUnSubscribe ==
    \/ \E r \in Regs : \E url \in SubscribeUrls : Subscribe(SeqCaller, r, url)
    \/ \E r \in Regs : \E url \in SubscribeUrls : UnSubscribe(OtherCaller, r, url)
    \/ UnSubscribeClient(OtherCaller)
    \/ UnSubscribeReturn(OtherCaller)
    \/ \E r \in Regs : Destroy(SeqCaller, r)
    \/ IsAvailableStep(SeqCaller)
    \/ ListenService(SeqCaller)
    \/ SpawnPump(SeqCaller)
    \/ CloseListener(SeqCaller)
    \/ DestroySelect(SeqCaller)
    \/ DestroyClose(SeqCaller)
    \/ DestroyWait(SeqCaller)
    \/ DestroyRange(SeqCaller)
    \/ DestroyClear(SeqCaller)
    \/ CloseAndNilClientCheck(SeqCaller)
    \/ CloseAndNilClientClose(SeqCaller)
    \/ CloseAndNilClientNil(SeqCaller)
    \/ \E q \in Pumps : PumpStep(q)
    \/ Environment

SpecUnSubscribe == InitSeq /\ [][NextUnSubscribe]_vars

\* the number of invokers that share the exchange client at the start
MaxSharing == 2

\* a DubboInvoker on a client that one or more invokers share
InitInvoker ==
    /\ InitRegistries(Regs, MaxCalls)
    /\ \E sharing \in 1..MaxSharing : NewDubboInvoker(sharing)

\* goroutines call Destroy and Invoke on the invoker, concurrently
NextInvoker ==
    \/ \E p \in Callers : InvokerDestroy(p)
    \/ \E p \in Callers : InvokerDestroyOnce(p)
    \/ \E p \in Callers : InvokerDestroyGet(p)
    \/ \E p \in Callers : InvokerDestroyDecrease(p)
    \/ \E p \in Callers : InvokerDestroySetNil(p)
    \/ \E p \in Callers : InvokerDestroyDelete(p)
    \/ \E p \in Callers : InvokerDestroyClose(p)
    \/ \E p \in Callers : InvokerDestroyBase(p)
    \/ \E p \in Callers : Invoke(p)
    \/ \E p \in Callers : InvokeGet(p)
    \/ \E p \in Callers : InvokeSend(p)

SpecInvoker == InitInvoker /\ [][NextInvoker]_vars

\* one goroutine shuts the registry down while another subscribes to a service
\* and the backend pushes change events
NextLate ==
    \/ \E r \in Regs : Destroy(SeqCaller, r)
    \/ CloseListener(SeqCaller)
    \/ DestroySelect(SeqCaller)
    \/ DestroyClose(SeqCaller)
    \/ DestroyWait(SeqCaller)
    \/ DestroyRange(SeqCaller)
    \/ DestroyClear(SeqCaller)
    \/ CloseAndNilClientCheck(SeqCaller)
    \/ CloseAndNilClientClose(SeqCaller)
    \/ CloseAndNilClientNil(SeqCaller)
    \/ \E r \in Regs : \E url \in SubscribeUrls : Subscribe(OtherCaller, r, url)
    \/ IsAvailableStep(OtherCaller)
    \/ ListenService(OtherCaller)
    \/ SpawnPump(OtherCaller)
    \/ \E q \in Pumps : PumpStep(q)
    \/ Environment

SpecLate == InitSeq /\ [][NextLate]_vars

\* two registries in one process: a goroutine subscribes to a service on the
\* first and shuts the second down
SharedCallerStep ==
    \/ IsAvailableStep(SeqCaller)
    \/ ListenService(SeqCaller)
    \/ SpawnPump(SeqCaller)
    \/ CloseListener(SeqCaller)
    \/ DestroySelect(SeqCaller)
    \/ DestroyClose(SeqCaller)
    \/ DestroyWait(SeqCaller)
    \/ DestroyRange(SeqCaller)
    \/ DestroyClear(SeqCaller)
    \/ CloseAndNilClientCheck(SeqCaller)
    \/ CloseAndNilClientClose(SeqCaller)
    \/ CloseAndNilClientNil(SeqCaller)

\* the interests of the first registry: two services, so two keys of the cache
SharedUrls == SubscribeUrls \cup {Url("0", << "com.foo.Baz" >>, << "1.0" >>, << "g1" >>)}

NextShared ==
    \/ \E url \in SharedUrls : Subscribe(SeqCaller, "r1", url)
    \/ Destroy(SeqCaller, "r2")
    \/ SharedCallerStep
    \/ \E q \in Pumps : PumpStep(q)
    \/ Environment

SpecShared ==
    /\ InitTwo
    /\ [][NextShared]_vars
    /\ WF_vars(SharedCallerStep)
    /\ \A q \in Pumps : WF_vars(PumpStep(q))
    /\ MutexFairness(Pumps)

\* one goroutine subscribes to a service, through Subscribe or by a call of
\* subscribe, and shuts the registry down, no endpoint being registered, while
\* the backend pushes change events
NextLifecycle ==
    \/ \E r \in Regs : \E url \in SubscribeUrls : Subscribe(SeqCaller, r, url)
    \/ \E r \in Regs : \E serviceName \in ServiceNames : SubscribeName(SeqCaller, r, serviceName)
    \/ \E r \in Regs : Destroy(SeqCaller, r)
    \/ IsAvailableStep(SeqCaller)
    \/ ListenService(SeqCaller)
    \/ SpawnPump(SeqCaller)
    \/ CloseListener(SeqCaller)
    \/ DestroySelect(SeqCaller)
    \/ DestroyClose(SeqCaller)
    \/ DestroyWait(SeqCaller)
    \/ DestroyRange(SeqCaller)
    \/ DestroyClear(SeqCaller)
    \/ CloseAndNilClientCheck(SeqCaller)
    \/ CloseAndNilClientClose(SeqCaller)
    \/ CloseAndNilClientNil(SeqCaller)
    \/ \E q \in Pumps : PumpStep(q)
    \/ Environment

SpecLifecycle == Init /\ [][NextLifecycle]_vars

(***************************************************************************)
(* Vocabulary of the properties                                            *)
(***************************************************************************)
\* the goroutine q has been started and has not returned; a delivery goroutine
\* counts as returned once its deferred nr.wg.Done(), the last thing it runs,
\* has taken it from the wait group
PumpRunning(q) == pc[q] \notin {"none", "p_release", "exited"}

\* the delivery goroutine q is started by this step
PumpSpawned(q) == pc[q] = "none" /\ pc'[q] # "none"

\* the listener h is live: created and not closed
LiveHandle(h) == h \in DOMAIN handles /\ ~handles[h].closed

\* two listeners watch the same (service name, group) key
SameKey(h1, h2) ==
    CacheKey(handles[h1].name, RegistryGroup(handles[h1].reg))
        = CacheKey(handles[h2].name, RegistryGroup(handles[h2].reg))

\* caller p is inside a call of op
Inside(p, op) == pc[p] # "idle" /\ frame[p].op = op

\* caller p returns from a call in this step (every call has its own number n)
Returns(p) == result'[p] # result[p]

\* the URLs for which Destroy invoked UnRegister, in the order of the invocations
UnregisteredByDestroy(r) ==
    LET log == SelectSeq(unregLog[r], LAMBDA e : e[2] = "Destroy")
    IN [i \in 1..Len(log) |-> log[i][1]]

(***************************************************************************)
(* C1..C10                                                                 *)
(***************************************************************************)

\* C1: whatever the number and interleaving of Destroy calls on one registry,
\* close(nr.done) is executed at most once, so that it never hits a channel
\* that is already closed.
C1_ShutdownSignalRaisedOnce ==
    \A r \in Regs :
        /\ closeAttempts[r] <= 1
        /\ ~(fault.kind = "close of closed channel" /\ fault.reg = r)

\* C2: with two Destroy calls on a registry that has a backend client,
\* CloseClient is invoked exactly once in total and nr.namingClient is nil
\* once both calls have returned.
C2_BackendClosedOnce ==
    \A r \in Regs :
        /\ closeClientCalls[r] <= 1
        /\ (ctorOk[r] /\ destroyReturned[r] >= 2)
              => (closeClientCalls[r] = 1 /\ namingClient[r] = "nil")

\* C3: Destroy on the registry newNacosRegistry returns when the client could
\* not be created (nil client, nil done channel, empty ledger) does not fault.
C3_DestroyOfPartialRegistryDoesNotFault ==
    \A r \in Regs : ~ctorOk[r] => ~(fault.reg = r /\ fault.op = "Destroy")

\* C4: no delivery goroutine is started (wg.Add(1) and the go statement) in a
\* state where nr.done is closed.
C4_NoPumpSpawnedAfterShutdown ==
    [][\A q \in Pumps : PumpSpawned(q) => done[frame'[q].reg] # "closed"]_vars

\* C5: for every (service name, group) key there is at most one live listener
\* and at most one running delivery goroutine.
C5_OneHandlePerKey ==
    \A h1, h2 \in DOMAIN handles :
        (h1 # h2 /\ SameKey(h1, h2)) =>
            /\ ~(LiveHandle(h1) /\ LiveHandle(h2))
            /\ ~(PumpRunning(<< "pump", h1 >>) /\ PumpRunning(<< "pump", h2 >>))

\* C6: in every state after a Destroy call on a registry has returned, no
\* delivery goroutine of that registry is running.
C6_NoPumpRunsAfterDestroyReturned ==
    \A r \in Regs : destroyReturned[r] >= 1 =>
        \A q \in Pumps : PumpRunning(q) => frame[q].reg # r

\* C7: under fair scheduling, and with a closed listener failing its pending
\* receive, every Destroy call returns (unless the program panicked).
C7_DestroyEventuallyReturns ==
    \A p \in Callers : Inside(p, "Destroy") ~> (pc[p] = "idle" \/ fault # NoFault)

\* C8: Register returns nil and has appended its URL to the ledger exactly when
\* the backend answered (true, nil); otherwise it returns an error and the
\* ledger is as it was.  A Register call that has not returned leaves the ledger
\* alone.
C8_RegisterRecordsIffAccepted ==
    [][\A p \in Callers :
          /\ (Returns(p) /\ result'[p].op = "Register") =>
                LET r == result'[p].reg IN
                IF result'[p].bk = "ok"
                THEN /\ result'[p].val = "nil"
                     /\ registryUrls'[r] = Append(registryUrls[r], result'[p].url)
                ELSE /\ result'[p].val = "err"
                     /\ registryUrls'[r] = registryUrls[r]
          /\ (Inside(p, "Register") /\ ~Returns(p)) => registryUrls' = registryUrls
      ]_vars

C8_Witness ==
    \E p \in Callers :
        /\ result[p].op = "Register"
        /\ result[p].val = "err"
        /\ result[p].bk = "rejected"
        /\ registryUrls[result[p].reg] # << >>

\* C9: once a Destroy that followed the Register calls has returned, UnRegister
\* has been invoked exactly once for every recorded URL, in the order they were
\* recorded and whatever the earlier UnRegister calls returned, and the ledger
\* is empty; a later Destroy invokes no UnRegister.
C9_DestroyUnregistersLedgerInOrder ==
    \A r \in Regs :
        \* the ledger a first Destroy finds holds what the Register calls recorded
        /\ (destroyReturned[r] = 0 /\ \A p \in Callers : ~Inside(p, "Destroy"))
              => registryUrls[r] = appended[r]
        /\ destroyReturned[r] >= 1
              => /\ UnregisteredByDestroy(r) = appended[r]
                 /\ registryUrls[r] = << >>

C9_Witness ==
    \E r \in Regs :
        /\ destroyReturned[r] >= 1
        /\ Len(unregLog[r]) = 2
        /\ unregLog[r][1][3] = "err"
        /\ unregLog[r][1][1] # unregLog[r][2][1]

\* C10: an IsAvailable call that finds nr.done closed returns false at once: it
\* does not go on to the mutex or to the backend probe, and lastAvailable and
\* lastCheckTime stay as they are.  This is so for a public call and for the
\* calls made by subscribeUntilSuccess, subscribe and handleServiceEvents.
C10_IsAvailableFalseAfterShutdown ==
    [][\A p \in Procs :
          LET public == /\ p \in Callers
                        /\ pc[p] = "idle"
                        /\ calls' # calls
                        /\ (pc'[p] # "idle" \/ Returns(p))
              op == IF pc'[p] = "idle" THEN result'[p].op ELSE frame'[p].op
              r == IF pc'[p] = "idle" THEN result'[p].reg ELSE frame'[p].reg
              inner == /\ pc[p] = "ia_select"
                       /\ << pc'[p], frame'[p] >> # << pc[p], frame[p] >>
          IN
          /\ (public /\ op = "IsAvailable" /\ done[r] = "closed") =>
                /\ Returns(p)
                /\ result'[p].val = "false"
                /\ UNCHANGED << lastAvailable, sinceLastCheck >>
          /\ (inner /\ done[frame[p].reg] = "closed") =>
                /\ UNCHANGED << lastAvailable, sinceLastCheck >>
                /\ CASE frame[p].ret = "pump" -> pc'[p] = "p_exit"
                     [] frame[p].ret = "sub" -> pc'[p] = "ia_select" /\ frame'[p].ret = "sus"
                     [] frame[p].ret = "sus" -> pc'[p] = "idle" /\ result'[p].val = "nil"
                     [] OTHER -> FALSE
      ]_vars

\* subscribeUntilSuccess gave up without a listener: the IsAvailable of subscribe
\* (line 252) found nr.done closed, although the cache still says available
\* inside the interval
C10_Witness ==
    \E p \in Callers : \E r \in Regs :
        /\ result[p].op = "Subscribe"
        /\ IsConsumer(result[p].url)
        /\ result[p].reg = r
        /\ handles = << >>
        /\ done[r] = "closed"
        /\ lastAvailable[r]
        /\ sinceLastCheck[r] < checkInterval

(***************************************************************************)
(* C11..C20                                                                *)
(***************************************************************************)
\* the step in which p leaves the mutex-protected test of IsAvailable (line 390)
LeavesCacheTest(p) == pc[p] = "ia_lock" /\ pc'[p] # "ia_lock"

\* the step in which the probe of p (lines 401-407) answers
ProbeAnswers(p) == pc[p] = "ia_probe" /\ pc'[p] # "ia_probe"

BoolText(b) == IF b THEN "true" ELSE "false"

\* what C11 says of a call inside the window and of the answer of a probe
AvailabilityCacheRules(p) ==
    LET r == frame[p].reg IN
    /\ (LeavesCacheTest(p) /\ sinceLastCheck[r] < checkInterval) =>
          /\ pc'[p] # "ia_probe"
          /\ UNCHANGED << lastAvailable, sinceLastCheck >>
          /\ frame[p].ret = "pub" =>
                /\ Returns(p)
                /\ result'[p].val = BoolText(lastAvailable[r])
                /\ result'[p].bk = "none"
    /\ ProbeAnswers(p) =>
          /\ sinceLastCheck' = sinceLastCheck
          /\ frame[p].ret = "pub" =>
                /\ Returns(p)
                /\ result'[p].val = BoolText(lastAvailable'[r])
                /\ result'[p].bk = "probe"

\* C11 (as the spec words it): a call that finds the interval elapsed always
\* asks the backend, exactly once.
C11_StaleCallAlwaysProbes ==
    [][\A p \in Procs :
          /\ AvailabilityCacheRules(p)
          /\ (LeavesCacheTest(p) /\ sinceLastCheck[frame[p].reg] >= checkInterval) =>
                /\ sinceLastCheck'[frame[p].reg] = 0
                /\ pc'[p] = "ia_probe"
      ]_vars

\* C11: IsAvailable answers from the cache, with no backend call and no change
\* of the snapshot, exactly while less than checkInterval has passed since the
\* last check; the answer is then the value of the last check, also when that
\* check failed.  A call that finds the interval elapsed stamps the check time
\* and, when the registry has a backend client, asks the backend exactly once
\* and stores and returns the answer; without a client it stores and returns
\* false with no backend call.
C11_ProbeOnlyWhenStale ==
    [][\A p \in Procs :
          /\ AvailabilityCacheRules(p)
          /\ (LeavesCacheTest(p) /\ sinceLastCheck[frame[p].reg] >= checkInterval) =>
                LET r == frame[p].reg IN
                /\ sinceLastCheck'[r] = 0
                /\ IF namingClient[r] # "nil"
                   THEN pc'[p] = "ia_probe" /\ lastAvailable' = lastAvailable
                   ELSE /\ pc'[p] # "ia_probe"
                        /\ ~lastAvailable'[r]
                        /\ frame[p].ret = "pub" =>
                              Returns(p) /\ result'[p].val = "false"
      ]_vars

\* two calls in one window: the first asked the backend and got an error, the
\* second answered false from the cache
C11_Witness ==
    \E p1, p2 \in Callers : \E r \in Regs :
        /\ result[p1].op = "IsAvailable" /\ result[p1].reg = r
        /\ result[p1].bk = "probe" /\ result[p1].val = "false"
        /\ result[p2].op = "IsAvailable" /\ result[p2].reg = r
        /\ result[p2].n = result[p1].n + 1
        /\ result[p2].bk = "none" /\ result[p2].val = "false"
        /\ done[r] = "open"
        /\ sinceLastCheck[r] < checkInterval

\* caller p issues a call of op in this step
CallStarts(p, op) ==
    /\ pc[p] = "idle"
    /\ calls' = calls + 1
    /\ \/ frame'[p].n = calls' /\ frame'[p].op = op
       \/ result'[p].n = calls' /\ result'[p].op = op

\* the url of the call p issues in this step
CallUrl(p) == IF frame'[p].n = calls' THEN frame'[p].url ELSE result'[p].url

\* C12: a Subscribe whose url carries a role other than consumer returns nil in
\* the same step, and nothing else happens: no listener is made, none is stored
\* in the cache, no goroutine is started, the wait-group counter, the client
\* and the availability snapshot are as before, and the backend is not called.
C12_NonConsumerSubscribeIsNoOp ==
    [][\A p \in Callers :
          (CallStarts(p, "Subscribe") /\ Atoi(CallUrl(p).role) # CONSUMER) =>
              /\ Returns(p)
              /\ result'[p].val = "nil"
              /\ pc' = pc
              /\ UNCHANGED << regVars, listenerCache, handles, fault, events, obsVars >>
      ]_vars

\* a provider's Subscribe returned nil after a consumer's had made a listener
\* and started its delivery goroutine: both are as the consumer's call left them
C12_Witness ==
    \E p \in Callers :
        /\ result[p].op = "Subscribe"
        /\ result[p].n = calls
        /\ Atoi(result[p].url.role) = PROVIDER
        /\ result[p].val = "nil"
        /\ pc[p] = "idle"
        /\ Len(handles) = 1
        /\ PumpRunning(<< "pump", 1 >>)

\* p is inside the IsAvailable that subscribeUntilSuccess calls (line 205)
AtLoopTest(p) == frame[p].op = "Subscribe" /\ frame[p].ret = "sus"

\* p is inside subscribe()
InSubscribe(p) ==
    frame[p].ret = "sub" \/ pc[p] \in {"sub_listen", "sub_listening", "sub_spawn"}

\* p is inside subscribe(), the attempt of line 208
InAttempt(p) == frame[p].op = "Subscribe" /\ frame[p].ctx = "sus" /\ InSubscribe(p)

\* C13, the steps of the loop: an attempt begins only from an IsAvailable that
\* answered true; the loop returns only when its IsAvailable answered false or
\* when the attempt succeeded (the goroutine is started); an attempt that failed
\* leads straight back to the IsAvailable at the top of the loop
RetryLoopSteps(p) ==
    LET r == frame[p].reg IN
    /\ (~InAttempt(p) /\ InAttempt(p)') =>
          /\ AtLoopTest(p)
          /\ pc[p] \in {"ia_lock", "ia_probe"}
          /\ lastAvailable'[r]
    /\ (AtLoopTest(p) /\ Returns(p)) =>
          /\ \/ pc[p] = "ia_select" /\ done[r] = "closed"
             \/ pc[p] \in {"ia_lock", "ia_probe"} /\ ~lastAvailable'[r]
          /\ handles' = handles
    /\ (InAttempt(p) /\ Returns(p)) =>
          /\ pc[p] = "sub_spawn"
          /\ PumpSpawned(<< "pump", frame[p].h >>)
    /\ (InAttempt(p) /\ ~InAttempt(p)' /\ ~Returns(p)) =>
          /\ AtLoopTest(p)'
          /\ pc'[p] = "ia_select"

\* C13: subscribeUntilSuccess tests IsAvailable before every attempt, attempts
\* nothing after a false answer, and returns exactly on a false answer or on a
\* successful attempt, retrying at once otherwise; under fair scheduling it
\* returns once the registry is shut down and once an attempt has succeeded.
C13_RetryLoopEndsOnSuccessOrUnavailable ==
    /\ [][\A p \in Callers : RetryLoopSteps(p)]_vars
    /\ \A p \in Callers :
          /\ (Inside(p, "Subscribe") /\ done[frame[p].reg] = "closed")
                ~> (~Inside(p, "Subscribe") \/ fault # NoFault)
          /\ (Inside(p, "Subscribe") /\ pc[p] = "sub_spawn")
                ~> (~Inside(p, "Subscribe") \/ fault # NoFault)

\* the loop returned on unavailability, with no shutdown: the probe failed and
\* no listener was made
C13_Witness ==
    \E p \in Callers : \E r \in Regs :
        /\ result[p].op = "Subscribe"
        /\ Atoi(result[p].url.role) = CONSUMER
        /\ result[p].reg = r
        /\ result[p].val = "nil"
        /\ handles = << >>
        /\ done[r] = "open"
        /\ namingClient[r] = "client"
        /\ ~lastAvailable[r]
        /\ sinceLastCheck[r] < checkInterval

\* p is somewhere in a subscribeAll pass
InPass(p) ==
    /\ frame[p].ctx = "all"
    /\ pc[p] \in {"sa_list", "sa_loop", "ia_select", "ia_lock", "ia_probe",
                  "sub_listen", "sub_listening", "sub_spawn"}
    /\ frame[p].ret # "lk"

\* the rescan goroutine q is started by this step
LookupSpawned(q) == pc[q] = "none" /\ pc'[q] # "none"

\* q is inside the IsAvailable that scheduledLookUp calls (line 216)
AtLookupTest(q) == frame[q].ret = "lk" /\ pc[q] \in {"ia_select", "ia_lock", "ia_probe"}

\* C14, the caller: a wildcard Subscribe begins a pass when it is called and at
\* no other time, and it returns from the end of that pass, starting one rescan
\* goroutine as it does; rescan goroutines are started in no other way
WildcardCallerSteps(p) ==
    /\ (~InPass(p) /\ InPass(p)') => CallStarts(p, "Subscribe")
    /\ (InPass(p) /\ ~InPass(p)') => pc'[p] = "sl_go"
    /\ (Returns(p) /\ IsWildcard(result'[p].url) /\ Atoi(result'[p].url.role) = CONSUMER) =>
          /\ pc[p] = "sl_go"
          /\ Cardinality({q \in Lookups : LookupSpawned(q)}) = 1

\* C14, the rescan goroutine: it begins a pass only from an IsAvailable that
\* answered true, sleeps after every pass, wakes only when LookupInterval has
\* passed and then tests IsAvailable again, and ends on a false answer for good
LookupLoopSteps(q) ==
    LET r == frame[q].reg IN
    /\ (~InPass(q) /\ InPass(q)') =>
          /\ AtLookupTest(q)
          /\ pc[q] \in {"ia_lock", "ia_probe"}
          /\ lastAvailable'[r]
          /\ pc'[q] = "sa_list"
    /\ (InPass(q) /\ ~InPass(q)') =>
          /\ pc'[q] = "lk_sleep"
          /\ frame'[q].slept = 0
    /\ (pc[q] = "lk_sleep" /\ pc'[q] # "lk_sleep") =>
          /\ frame[q].slept >= LookupInterval
          /\ AtLookupTest(q)'
          /\ pc'[q] = "ia_select"
    /\ (AtLookupTest(q) /\ ~AtLookupTest(q)' /\ ~InPass(q)') =>
          /\ pc'[q] = "exited"
          /\ done[r] = "closed" \/ ~lastAvailable'[r]
    /\ pc[q] = "exited" => pc'[q] = "exited"

\* C14: a wildcard Subscribe of a consumer runs exactly one subscribeAll pass to
\* its end before it returns and starts one scheduledLookUp goroutine; that
\* goroutine runs a pass only after IsAvailable answered true, sleeps
\* LookupInterval after each pass, and runs no pass after a false answer.
C14_WildcardPassThenRescanLoop ==
    [][/\ \A p \in Callers : WildcardCallerSteps(p)
       /\ \A q \in Lookups : LookupLoopSteps(q)
       /\ \A q \in Lookups : LookupSpawned(q) =>
             \E p \in Callers : pc[p] = "sl_go" /\ Returns(p)]_vars

\* the wildcard Subscribe has returned and the rescan goroutine, having run a
\* pass of its own, is part-way through its sleep
C14_Witness ==
    \E p \in Callers : \E q \in Lookups :
        /\ result[p].op = "Subscribe"
        /\ IsWildcard(result[p].url)
        /\ pc[p] = "idle"
        /\ pc[q] = "lk_sleep"
        /\ frame[q].slept > 0
        /\ frame[q].slept < LookupInterval
        /\ frame[q].bk = "ok"

\* the elements of a sequence
Range(seq) == {seq[i] : i \in 1..Len(seq)}

\* the categories the url asks for
RequestedCategories(url) ==
    IF url.category = << >> THEN {DefaultCategory}
    ELSE Range(Split(url.category, CommaSeparator))

\* the listed names a pass has to subscribe to: those with a separator whose
\* text before the first separator is a requested category
WantedNames(doms, url) ==
    {d \in Range(doms) :
        \E i \in 1..Len(d) :
            /\ d[i] = NacosServiceNameSeparator
            /\ \A j \in 1..(i - 1) : d[j] # NacosServiceNameSeparator
            /\ SubSeq(d, 1, i - 1) \in RequestedCategories(url)}

\* the pass of p ends in this step
PassEndsNow(p) == pc[p] \in {"sa_list", "sa_loop"} /\ pc'[p] \in {"sl_go", "lk_sleep"}

\* C15: a pass that lists the names takes exactly the wanted ones, and ends
\* without a subscription when the listing fails or nothing is wanted; at each
\* name it skips the name when its key is in listenerCache and calls
\* subscribe(name) otherwise; a listener is made only for the name the pass is
\* at, and the pass then moves to the next name.
C15_PassSubscribesWantedUncachedNames ==
    [][\A p \in Procs :
          LET f == frame[p]
              g == frame'[p]
          IN
          /\ (pc[p] = "sa_list" /\ pc'[p] # "sa_list") =>
                IF g.bk = "ok" /\ WantedNames(g.doms, f.url) # {}
                THEN /\ pc'[p] = "sa_loop"
                     /\ Range(g.snap) = WantedNames(g.doms, f.url)
                     /\ g.idx = 1
                     /\ handles' = handles
                ELSE PassEndsNow(p) /\ handles' = handles /\ listenerCache' = listenerCache
          /\ (pc[p] = "sa_loop" /\ << pc'[p], g >> # << pc[p], f >>) =>
                /\ handles' = handles
                /\ IF f.idx > Len(f.snap) THEN PassEndsNow(p)
                   ELSE IF CacheKey(f.snap[f.idx], RegistryGroup(f.reg)) \in DOMAIN listenerCache
                   THEN pc'[p] = "sa_loop" /\ g.idx = f.idx + 1
                   ELSE /\ InSubscribe(p)'
                        /\ g.name = f.snap[f.idx]
                        /\ g.idx = f.idx
          /\ (InPass(p) /\ pc[p] = "sub_listening" /\ pc'[p] = "sub_spawn") =>
                /\ handles' = Append(handles, handles'[Len(handles')])
                /\ handles'[Len(handles')].name = f.snap[f.idx]
                /\ f.snap[f.idx] \in WantedNames(f.doms, f.url)
          /\ (InPass(p) /\ InSubscribe(p) /\ ~InSubscribe(p)') =>
                /\ pc'[p] = "sa_loop"
                /\ g.idx = f.idx + 1
      ]_vars

\* the scenario of the spec: of the listed providers and consumers entries of
\* com.foo.Bar, the pass of a Subscribe for the default category has made a
\* listener for the providers entry only
C15_Witness ==
    \E p \in Callers :
        /\ pc[p] = "sl_go"
        /\ frame[p].url.category = << >>
        /\ frame[p].doms = << ProvidersBar, ConsumersBar >>
        /\ Len(handles) = 1
        /\ handles[1].name = ProvidersBar
        /\ DOMAIN listenerCache = {CacheKey(ProvidersBar, RegistryGroup(frame[p].reg))}

\* seq is an initial part of whole
IsPrefix(seq, whole) ==
    /\ Len(seq) <= Len(whole)
    /\ SubSeq(whole, 1, Len(seq)) = seq

\* the events the notify sink of listener h has received so far
Delivered(h) == handles[h].notified

\* the events the backend has pushed to listener h so far
Produced(h) == handles[h].produced

\* a step hands at most one event to the sink of h, and only the delivery
\* goroutine of h does, by its return from listener.Next()
OneDeliveryAtATime(h) ==
    (h \in DOMAIN handles /\ h \in DOMAIN handles' /\ Delivered(h)' # Delivered(h))
        => /\ Len(Delivered(h)') = Len(Delivered(h)) + 1
           /\ pc[<< "pump", h >>] = "p_next"
           /\ Produced(h)' = Produced(h)

\* C16: for every subscription, what its delivery goroutine has passed to the
\* notify sink is an initial part of what the listener produced, in the same
\* order and unchanged, and a step passes one event: none is reordered,
\* repeated, skipped or batched
C16_DeliveryIsPrefixOfProduced ==
    /\ [](\A h \in DOMAIN handles : IsPrefix(Delivered(h), Produced(h)))
    /\ [][\A h \in Handles : OneDeliveryAtATime(h)]_vars

\* a listener has produced two events, its sink has received the first and the
\* second is pending
C16_Witness ==
    \E h \in DOMAIN handles :
        /\ Len(Produced(h)) = 2
        /\ Len(Delivered(h)) = 1
        /\ handles[h].queue # << >>

\* the places in a listing of the instances that convert to an endpoint
Converting(instances) ==
    {i \in 1..Len(instances) : generateUrl(instances[i]) # NilEndpoint}

\* the place in the listing of the k-th instance that converts
KthConverting(instances, k) ==
    CHOOSE i \in Converting(instances) :
        Cardinality({j \in Converting(instances) : j <= i}) = k

\* the call of LoadSubscribeInstances that caller p made last has returned
Loaded(p) == result[p].op = "LoadSubscribeInstances"

\* C17: a LoadSubscribeInstances whose listing failed returned an error and
\* passed no event to the consumer; one whose listing succeeded returned nil
\* and passed one Add event for each listed instance that converts to an
\* endpoint, in the order of the listing, and no other event
C17_LoadReturnsErrorOrOneAddPerInstance ==
    \A p \in Callers :
        Loaded(p) =>
            /\ result[p].bk \in {"err", "ok"}
            /\ result[p].bk = "err" =>
                   /\ result[p].val = "err"
                   /\ result[p].notified = << >>
            /\ result[p].bk = "ok" =>
                   /\ result[p].val = "nil"
                   /\ Len(result[p].notified) = Cardinality(Converting(result[p].listed))
                   /\ \A k \in 1..Len(result[p].notified) :
                          result[p].notified[k] =
                              AddEvent(generateUrl(
                                  result[p].listed[KthConverting(result[p].listed, k)]))

\* a listing of two instances that convert, the second registered before the
\* first, has been delivered, and another load failed to list
C17_Witness ==
    \E p, o \in Callers :
        /\ Loaded(p) /\ Loaded(o)
        /\ result[o].bk = "err"
        /\ result[p].bk = "ok"
        /\ Len(result[p].listed) = 2
        /\ Len(result[p].notified) = 2
        /\ result[p].listed[1].id = 2
        /\ result[p].listed[2].id = 1

\* the last call of caller p built a registration record
Built(p) == result[p].op = "createRegisterParam"

\* the weight text createRegisterParam read for the record of caller p
WeightTextOf(p) == GetParamText(result[p].url.weight, DefaultWeightText)

\* C18: the stored weight is the default 1.0 when the weight parameter does not
\* parse or its value is at or below the minimum, the maximum 10000 when the
\* value is above the maximum, the parsed value otherwise; it always lies
\* above the minimum and at or below the maximum
C18_StoredWeightWithinBounds ==
    \A p \in Callers :
        Built(p) =>
            LET parsed == ParseFloat(WeightTextOf(p))
                stored == result[p].param.Weight
            IN
            /\ IF parsed.err \/ FloatLE(parsed.f, MinNacosWeight)
               THEN stored = DefaultNacosWeight
               ELSE IF FloatGT(parsed.f, MaxNacosWeight)
               THEN stored = MaxNacosWeight
               ELSE stored = parsed.f
            /\ FloatGT(stored, MinNacosWeight)
            /\ FloatLE(stored, MaxNacosWeight)

\* the (category, interface, version, group) of the endpoint of caller p's record
IdentityTuple(p) ==
    << getCategory(result[p].url), result[p].url.iface, result[p].url.version,
       result[p].url.group >>

\* the number of separators in a service name
SeparatorCount(name) ==
    Cardinality({i \in 1..Len(name) : name[i] = NacosServiceNameSeparator})

\* C19: two endpoints with distinct (category, interface, version, group) never
\* get the same service name, the same tuple always gets the same name, and
\* every component, empty or not, has its separator in the name
C19_ServiceNameInjective ==
    \A p, o \in Callers :
        (Built(p) /\ Built(o)) =>
            /\ (IdentityTuple(p) = IdentityTuple(o))
                  <=> (result[p].param.ServiceName = result[o].param.ServiceName)
            /\ SeparatorCount(result[p].param.ServiceName) >= 3

\* the goroutines the registry starts: the delivery goroutines, which the
\* wait group counts, and the rescan loops, which it does not
Background == Pumps \cup Lookups

\* a caller is inside a Destroy call on the registry of goroutine q
DestroyCalledOn(q) == \E p \in Callers : Inside(p, "Destroy") /\ frame[p].reg = frame[q].reg

\* C20: once Destroy has been called on a registry, every goroutine that
\* registry started and that still runs eventually terminates (unless the
\* program panicked)
C20_BackgroundTerminatesAfterDestroy ==
    \A q \in Background :
        (PumpRunning(q) /\ DestroyCalledOn(q)) ~> (~PumpRunning(q) \/ fault # NoFault)

(***************************************************************************)
(* C21..C29                                                                *)
(***************************************************************************)
\* the delivery goroutine q leaves its loop in this step: IsAvailable answered
\* false (line 305) or listener.Next() returned an error (line 311)
PumpLeavesLoop(q) == pc[q] \in {"ia_select", "ia_lock", "ia_probe", "p_next"} /\ pc'[q] = "p_exit"

\* the delivery goroutine q has left its loop or has returned
PumpOver(q) == pc[q] \in {"p_exit", "p_done", "p_release", "exited"}

\* the sinks of all the listeners have received the same events before and
\* after the step
SinksUnchanged ==
    \A h \in DOMAIN handles : h \in DOMAIN handles' /\ Delivered(h)' = Delivered(h)

\* C21: a Subscribe that returns an error returns it from its listen call; a
\* delivery goroutine that leaves its loop, on a receive error or because the
\* registry is not available, returns nothing to any caller, passes nothing to
\* any sink, raises no panic and stops no other goroutine, and once it has left
\* its sink receives no further event
C21_PumpErrorsAreNotSurfaced ==
    [][/\ \A p \in Callers :
              (Returns(p) /\ result'[p].op = "Subscribe" /\ result'[p].val # "nil")
                  => pc[p] = "sub_listening"
       /\ \A q \in Pumps :
              /\ PumpLeavesLoop(q) =>
                     /\ result' = result
                     /\ fault' = fault
                     /\ SinksUnchanged
                     /\ \A o \in Procs \ {q} : pc'[o] = pc[o]
              /\ PumpOver(q) => Delivered(frame[q].h)' = Delivered(frame[q].h)
      ]_vars

\* a delivery goroutine has returned while an event it never received is
\* pending, and the Destroy that closed its listener has returned
C21_Witness ==
    \E q \in Pumps : \E p \in Callers :
        /\ pc[q] = "exited"
        /\ handles[frame[q].h].closed
        /\ handles[frame[q].h].queue # << >>
        /\ result[p].op = "Destroy"
        /\ done[frame[q].reg] = "closed"

\* the ledger of r loses an entry in this step: what it held is no longer the
\* beginning of what it holds
LedgerLosesEntry(r) == ~IsPrefix(registryUrls[r], registryUrls'[r])

\* C22: an UnRegister leaves the ledger as it was, whatever the backend
\* answered, and returns an error exactly when the deregister call failed or
\* reported that nothing was removed; the ledger loses entries only in Destroy
C22_UnRegisterLeavesLedger ==
    [][/\ \A p \in Callers :
              (Returns(p) /\ result'[p].op = "UnRegister") =>
                  /\ registryUrls' = registryUrls
                  /\ result'[p].bk \in BackendOutcomes
                  /\ (result'[p].val = "err") <=> (result'[p].bk \in {"err", "rejected"})
                  /\ (result'[p].val = "nil") <=> (result'[p].bk = "ok")
       /\ \A r \in Regs :
              LedgerLosesEntry(r) =>
                  \E p \in Callers : Inside(p, "Destroy") /\ frame[p].reg = r
      ]_vars

\* an UnRegister of a recorded endpoint was told that nothing was removed and
\* returned an error, and the endpoint is still in the ledger
C22_Witness ==
    \E p \in Callers :
        /\ result[p].op = "UnRegister"
        /\ result[p].bk = "rejected"
        /\ result[p].val = "err"
        /\ \E i \in 1..Len(registryUrls[result[p].reg]) :
               registryUrls[result[p].reg][i] = result[p].url

\* nothing of a subscription is made in this step: no listener, no entry of
\* the cache, no delivery goroutine, and the wait-group counter is as before
NothingSubscribed ==
    /\ handles' = handles
    /\ listenerCache' = listenerCache
    /\ wg' = wg
    /\ \A q \in Pumps : ~PumpSpawned(q)

\* caller p is inside IsAvailable, called by subscribe (line 252)
InSubscribeTest(p) == pc[p] \in {"ia_select", "ia_lock", "ia_probe"} /\ frame[p].ret = "sub"

\* the step is a step of p
Moves(p) == pc'[p] # pc[p] \/ frame'[p] # frame[p] \/ result'[p] # result[p]

\* C23: a call of subscribe with an empty service name returns nil at once; a
\* call with a name that finds the registry not available returns an error;
\* neither makes a listener, calls listenService, or starts a delivery
\* goroutine, and a call with a name does not return before it has asked
\* IsAvailable
C23_SubscribeEmptyNameOrUnavailable ==
    [][\A p \in Callers :
          /\ (CallStarts(p, "subscribe") /\ result'[p].n = calls' /\ frame'[p].n # calls')
                 => /\ result'[p].name = << >>
                    /\ result'[p].val = "nil"
                    /\ NothingSubscribed
          /\ (CallStarts(p, "subscribe") /\ frame'[p].n = calls')
                 => /\ frame'[p].name # << >>
                    /\ InSubscribeTest(p)'
                    /\ NothingSubscribed
          /\ (Inside(p, "subscribe") /\ InSubscribeTest(p) /\ Moves(p))
                 => /\ NothingSubscribed
                    /\ Returns(p) => result'[p].val = "err" /\ result'[p].name # << >>
                    /\ pc'[p] \in {"ia_select", "ia_lock", "ia_probe", "sub_listen", "idle"}
      ]_vars

\* a subscribe with an empty name has returned nil on a registry that has no
\* listener
C23_Witness ==
    \E p \in Callers :
        /\ result[p].op = "subscribe"
        /\ result[p].name = << >>
        /\ result[p].val = "nil"
        /\ handles = << >>

\* a subscribe with a name has returned an error on a registry that is shut down
C23_WitnessUnavailable ==
    \E p \in Callers :
        /\ result[p].op = "subscribe"
        /\ result[p].name # << >>
        /\ result[p].val = "err"
        /\ done[result[p].reg] = "closed"

\* the delivery goroutines of registry r that have been started and have not
\* returned
RunningPumps(r) == {q \in Pumps : PumpRunning(q) /\ frame[q].reg = r}

\* the delivery goroutine q has run its deferred nr.wg.Done()
PumpDiscounted(q) == pc[q] \in {"p_release", "exited"}


\* the delivery goroutines started in this step
SpawnedNow == {q \in Pumps : PumpSpawned(q)}

\* C24: a subscribe whose listen call succeeded starts one delivery goroutine,
\* for the listener it made, and adds one to the wait group; one whose listen
\* call failed starts none and adds nothing, and returns the error to its
\* caller. A delivery goroutine returns only through its deferred calls, which
\* close its listener and then take one from the wait group. The wait-group
\* counter of a registry is the number of its delivery goroutines that were
\* started and have not run their Done.
C24_WaitGroupCountsRunningPumps ==
    /\ [](\A r \in Regs : wg[r] = Cardinality(RunningPumps(r)))
    /\ [](\A q \in Pumps : pc[q] \in {"p_done", "p_release", "exited"}
                              => handles[frame[q].h].closed)
    /\ [][/\ \A p \in Callers :
              /\ (pc[p] = "sub_spawn" /\ Moves(p)) =>
                     /\ SpawnedNow = {<< "pump", frame[p].h >>}
                     /\ wg' = [wg EXCEPT ![frame[p].reg] = @ + 1]
              /\ (pc[p] = "sub_listening" /\ Moves(p) /\ pc'[p] # "sub_spawn") =>
                     /\ SpawnedNow = {}
                     /\ wg' = wg
                     /\ handles' = handles
                     /\ frame[p].ctx = "prim" => (Returns(p) /\ result'[p].val = "err")
              /\ (pc[p] \notin {"sub_spawn"} /\ Moves(p)) => SpawnedNow = {}
         /\ \A q \in Pumps :
              /\ (pc[q] = "p_exit" /\ pc'[q] # "p_exit") =>
                     /\ pc'[q] = "p_done"
                     /\ handles'[frame[q].h].closed
                     /\ wg' = wg
              /\ (~PumpDiscounted(q) /\ PumpDiscounted(q)') =>
                     /\ pc[q] = "p_done"
                     /\ wg' = [wg EXCEPT ![frame[q].reg] = @ - 1]
              /\ (pc[q] # "exited" /\ pc'[q] = "exited") =>
                     pc[q] \in {"p_done", "p_release"}
       ]_vars

\* two delivery goroutines were started; one has returned and its listener is
\* closed, the other one runs and is the one the wait group counts
C24_Witness ==
    \E q, o \in Pumps : \E r \in Regs :
        /\ pc[q] = "exited"
        /\ PumpRunning(o)
        /\ frame[o].reg = r
        /\ wg[r] = 1
        /\ handles[frame[q].h].closed
        /\ ~handles[frame[o].h].closed

\* the place of a step of Destroy in the order of lines 411-431
DestroyRank(label) ==
    CASE label \in {"cl_range", "cl_delete"} -> 0
      [] label = "d_select" -> 1
      [] label = "d_close" -> 2
      [] label \in {"d_wait", "d_parked", "d_woken"} -> 3
      [] label = "d_range" -> 4
      [] label = "d_unregister" -> 5
      [] label = "d_checkClient" -> 6
      [] label = "d_closeClient" -> 7
      [] label = "d_nilClient" -> 8
      [] OTHER -> 9

\* the Destroy of caller p calls UnRegister in this step
DestroyUnRegisters(p) ==
    /\ Inside(p, "Destroy")
    /\ pc[p] = "d_unregister"
    /\ unregLog'[frame[p].reg] # unregLog[frame[p].reg]

\* the Destroy of caller p visits an entry of the cache in this step
VisitsEntry(p) == pc[p] = "cl_range" /\ pc'[p] = "cl_delete"

\* the steps of one Destroy follow the order of the code: Range sets out with
\* the keys of the cache, closes the listener of each entry it visits and then
\* deletes the entry, and returns when it has been through them; then the
\* signal, the wait, the UnRegister calls, the clearing of the ledger and the
\* close of the client
DestroyStepsInOrder(p) ==
    /\ CallStarts(p, "Destroy") =>
           /\ pc'[p] = "cl_range"
           /\ frame'[p].todo = DOMAIN listenerCache
    /\ (Inside(p, "Destroy") /\ Moves(p)) =>
           /\ DestroyRank(pc'[p]) >= DestroyRank(pc[p])
           /\ VisitsEntry(p) => handles'[listenerCache[frame'[p].key]].closed
           /\ pc[p] = "cl_delete" => frame[p].key \notin DOMAIN listenerCache'
           /\ (pc[p] = "cl_range" /\ pc'[p] = "d_select") => frame[p].todo = {}
           /\ done' # done => pc[p] = "d_close"
           /\ (DestroyRank(pc[p]) = 3 /\ DestroyRank(pc'[p]) > 3) => wg[frame[p].reg] = 0
           /\ registryUrls' # registryUrls => (pc[p] = "d_unregister" /\ ~DestroyUnRegisters(p))
           /\ closeClientCalls' # closeClientCalls => pc[p] = "d_closeClient"
           /\ namingClient' # namingClient => pc[p] = "d_nilClient"

\* C25: the steps of one Destroy happen in the order close and remove the
\* cached listeners, raise the signal, wait for the delivery goroutines,
\* UnRegister the ledger, clear it, close the client; and when a Destroy calls
\* UnRegister every delivery goroutine of the registry has returned and that
\* Destroy has not closed the client
C25_DestroyStepsInOrder ==
    [][\A p \in Callers :
          /\ DestroyStepsInOrder(p)
          /\ DestroyUnRegisters(p) =>
                 /\ RunningPumps(frame[p].reg) = {}
                 /\ DestroyRank(pc[p]) < DestroyRank("d_closeClient")
      ]_vars

\* the order alone, without what it is said to imply
C25_OrderOnly == [][\A p \in Callers : DestroyStepsInOrder(p)]_vars

\* the listener of the delivery goroutine q was closed while its registry is
\* built, has its client and is not shut down
ClosedUnderRunningRegistry(q) ==
    /\ PumpRunning(q)
    /\ handles[frame[q].h].closed
    /\ done[frame[q].reg] = "open"
    /\ namingClient[frame[q].reg] = "client"

\* the keys Range of the Destroy of caller p has still to go through, the one
\* it is at included
StillToVisit(p) ==
    frame[p].todo \cup (IF pc[p] = "cl_delete" THEN {frame[p].key} ELSE {})

\* C26: the Destroy of a registry sets out with every key of the cache, closes
\* the listener of each entry and deletes the entry, the listeners another
\* registry stored included, and with no insert in between it leaves the cache
\* empty; the delivery goroutine of such a listener then returns although its
\* own registry is not shut down
C26_DestroyClosesListenersOfOtherRegistries ==
    /\ [][\A p \in Callers :
             /\ CallStarts(p, "Destroy") => frame'[p].todo = DOMAIN listenerCache
             /\ VisitsEntry(p) =>
                    /\ frame'[p].key \in DOMAIN listenerCache
                    /\ handles'[listenerCache[frame'[p].key]].closed
                    /\ \A h \in DOMAIN handles \ {listenerCache[frame'[p].key]} :
                           handles'[h] = handles[h]
             /\ (pc[p] = "cl_delete" /\ Moves(p)) =>
                    DOMAIN listenerCache' = DOMAIN listenerCache \ {frame[p].key}
             /\ (pc[p] = "cl_range" /\ pc'[p] = "d_select") => listenerCache = << >>
         ]_vars
    /\ [](\A p \in Callers :
             pc[p] \in {"cl_range", "cl_delete"} => DOMAIN listenerCache = StillToVisit(p))
    /\ \A q \in Pumps :
          ClosedUnderRunningRegistry(q) ~> (pc[q] = "exited" \/ fault # NoFault)

\* the second registry is being shut down; the first one, which is not shut
\* down, has listeners for two services, both are closed and gone from the
\* cache, and their delivery goroutines wait in Next
C26_Witness ==
    \E p \in Callers :
        /\ Inside(p, "Destroy")
        /\ frame[p].reg = "r2"
        /\ listenerCache = << >>
        /\ Len(handles) = 2
        /\ handles[1].name # handles[2].name
        /\ \A q \in Pumps :
               /\ pc[q] = "p_next"
               /\ ClosedUnderRunningRegistry(q)
               /\ frame[q].reg = "r1"

\* the sink of listener h receives an event in this step
DeliversNow(h) == h \in DOMAIN handles /\ Delivered(h)' # Delivered(h)

\* C27: once a Destroy of a registry has returned, no delivery goroutine of
\* that registry passes an event to a sink, and none is inside listener.Next()
C27_NoDeliveryAfterDestroyReturned ==
    /\ [][\A h \in Handles :
             DeliversNow(h) => destroyReturned[handles[h].reg] = 0]_vars
    /\ [](\A q \in Pumps :
             (PumpRunning(q) /\ destroyReturned[frame[q].reg] >= 1) => pc[q] # "p_next")

\* Destroy has returned, a delivery goroutine of the registry has ended, and
\* the event the backend pushed to its listener was never passed to the sink
C27_Witness ==
    \E q \in Pumps :
        /\ pc[q] = "exited"
        /\ destroyReturned[frame[q].reg] >= 1
        /\ Produced(frame[q].h) # << >>
        /\ Delivered(frame[q].h) = << >>

\* the registry of the call p issues in this step
CallReg(p) == IF frame'[p].n = calls' THEN frame'[p].reg ELSE result'[p].reg

\* the cache key the UnSubscribe that p calls in this step looks up
UnSubscribeKey(p) == CacheKey(getSubscribeName(CallUrl(p)), RegistryGroup(CallReg(p)))

\* C28: an UnSubscribe that finds no entry under its key returns nil at once
\* and makes no backend call; one that finds an entry goes on to one backend
\* call with the callback of the listener it found, and returns an error
\* exactly when that call failed. No step of the call changes the cache, the
\* listeners, the delivery goroutines or the wait group.
C28_UnSubscribeOnlyCallsBackendForCachedKey ==
    [][\A p \in Callers :
          /\ (CallStarts(p, "UnSubscribe") /\ fault' = fault) =>
                 IF UnSubscribeKey(p) \in DOMAIN listenerCache
                 THEN /\ ~Returns(p)
                      /\ pc'[p] = "un_client"
                      /\ frame'[p].param[2] = Callback(listenerCache[UnSubscribeKey(p)])
                 ELSE /\ Returns(p)
                      /\ result'[p].bk = "none"
                      /\ result'[p].val = "nil"
          /\ (Inside(p, "UnSubscribe") /\ Returns(p)) =>
                 /\ pc[p] = "un_call"
                 /\ result'[p].bk \in UnsubscribeOutcomes
                 /\ result'[p].param = frame[p].param
                 /\ (result'[p].val = "err") <=> (result'[p].bk = "err")
                 /\ result'[p].val \in {"nil", "err"}
          /\ (Inside(p, "UnSubscribe") /\ Moves(p) /\ ~Returns(p)) =>
                 /\ pc[p] = "un_client"
                 /\ pc'[p] = "un_call"
                 /\ frame'[p].param = frame[p].param
          /\ ((CallStarts(p, "UnSubscribe") \/ Inside(p, "UnSubscribe")) /\ Moves(p)) =>
                 /\ listenerCache' = listenerCache
                 /\ handles' = handles
                 /\ wg' = wg
                 /\ \A q \in Pumps : pc'[q] = pc[q]
      ]_vars

\* UnSubscribe for a cached key has returned the error of a failed backend
\* call, the entry is still cached and its delivery goroutine still runs
C28_Witness ==
    \E p \in Callers :
        /\ result[p].op = "UnSubscribe"
        /\ result[p].bk = "err"
        /\ result[p].val = "err"
        /\ CacheKey(getSubscribeName(result[p].url), RegistryGroup(result[p].reg))
               \in DOMAIN listenerCache
        /\ \E q \in Pumps : PumpRunning(q) /\ frame[q].h = result[p].param[2]

\* UnSubscribe for a key that is not cached has returned nil without a call
C28_WitnessUncached ==
    \E p \in Callers :
        /\ result[p].op = "UnSubscribe"
        /\ result[p].bk = "none"
        /\ result[p].val = "nil"

\* a call of Destroy on the invoker has returned
InvokerDestroyed == invoker.quitOnce = "done"

\* a caller calls Invoke in this step
InvokeCalled(p) ==
    /\ pc[p] = "idle"
    /\ \/ pc'[p] = "inv_get"
       \/ result'[p] # result[p] /\ result'[p].op = "DubboInvoker.Invoke"

\* C29: whatever the number and the interleaving of Destroy calls on one
\* invoker, the active number of the exchange client is decremented at most
\* once and the client is closed at most once; when a Destroy has returned it
\* was decremented once, di.client is nil, and the client was closed and
\* deleted from the client map exactly if the decrement returned zero; from
\* then on Destroy changes nothing and an Invoke that is called returns an
\* error without a request
C29_InvokerTeardownRunsOnce ==
    /\ [](/\ exchange.decrements <= 1
          /\ exchange.closes <= 1
          /\ (exchange.closes = 1 \/ ~exchange.inMap)
                 => (exchange.decrements = 1 /\ exchange.activeNumber = 0)
          /\ InvokerDestroyed =>
                 /\ exchange.decrements = 1
                 /\ invoker.client = "nil"
                 /\ (exchange.activeNumber = 0) <=> (exchange.closes = 1)
                 /\ (exchange.activeNumber = 0) <=> ~exchange.inMap)
    /\ [][InvokerDestroyed =>
             /\ invoker' = invoker
             /\ exchange'.activeNumber = exchange.activeNumber
             /\ exchange'.decrements = exchange.decrements
             /\ exchange'.closes = exchange.closes
             /\ exchange'.inMap = exchange.inMap
             /\ \A p \in Callers : InvokeCalled(p) =>
                    /\ result'[p].val \in {"ErrDestroyedInvoker", "ErrClientClosed"}
                    /\ exchange'.requests = exchange.requests]_vars

\* two Destroy calls have returned, one of them after waiting for the other
\* or finding the Once done, the last invoker of the client was torn down
\* (client closed and out of the map), and an Invoke called afterwards got
\* the error of a destroyed invoker
C29_Witness ==
    /\ InvokerDestroyed
    /\ exchange.closes = 1
    /\ ~exchange.inMap
    /\ calls = 3
    /\ \E p, q \in Callers :
          /\ p # q
          /\ result[p].op = "DubboInvoker.Destroy"
          /\ result[q].op = "DubboInvoker.Invoke"
          /\ result[q].val = "ErrDestroyedInvoker"
          /\ result[q].n = 3
          /\ result[p].n = 2

\* the invoker was torn down while other invokers still use the client: the
\* client stays open and in the map
C29_WitnessShared ==
    /\ InvokerDestroyed
    /\ exchange.activeNumber = 1
    /\ exchange.closes = 0
    /\ exchange.inMap

=============================================================================
